---- MODULE Spec2Model ----
(***************************************************************************)
(* Secrets-at-rest envelope encryption of stage environment files.         *)
(*                                                                         *)
(* A JavaScript string is a sequence of characters; a character is a       *)
(* one-element TLA+ string ("A", "=", " ", "\n", ...).  A Record<string,   *)
(* string> is a sequence of <<key, value>> pairs with distinct keys, in    *)
(* insertion order, as Object.entries enumerates it.                       *)
(***************************************************************************)
EXTENDS Integers, Sequences, FiniteSets, TLC

(***************************************************************************)
(* Characters                                                              *)
(***************************************************************************)
LF == "\n"
CR == "\r"
SP == " "
BOM == "<U+FEFF>"

Upper == {"A","B","C","D","E","F","G","H","I","J","K","L","M",
          "N","O","P","Q","R","S","T","U","V","W","X","Y","Z"}
Lower == {"a","b","c","d","e","f","g","h","i","j","k","l","m",
          "n","o","p","q","r","s","t","u","v","w","x","y","z"}
Digit == {"0","1","2","3","4","5","6","7","8","9"}

\* String.prototype.trim removes WhiteSpace and LineTerminator, U+FEFF included
WhiteSpace == {SP, "\t", LF, CR, BOM}

(***************************************************************************)
(* String primitives of the JavaScript runtime                             *)
(***************************************************************************)
RECURSIVE TrimStart(_)
TrimStart(s) ==
  IF s # <<>> /\ Head(s) \in WhiteSpace THEN TrimStart(Tail(s)) ELSE s

RECURSIVE TrimEnd(_)
TrimEnd(s) ==
  IF s # <<>> /\ s[Len(s)] \in WhiteSpace
  THEN TrimEnd(SubSeq(s, 1, Len(s) - 1))
  ELSE s

Trim(s) == TrimEnd(TrimStart(s))

StartsWith(s, p) == Len(s) >= Len(p) /\ SubSeq(s, 1, Len(p)) = p

Includes(s, c) == \E i \in 1..Len(s) : s[i] = c

\* 1-based position of the first c in s, 0 when there is none
IndexOf(s, c) ==
  IF Includes(s, c)
  THEN CHOOSE i \in 1..Len(s) : s[i] = c /\ \A j \in 1..(i - 1) : s[j] # c
  ELSE 0

\* s.split(c) for a one-character separator: always at least one piece
RECURSIVE Split(_, _)
Split(s, c) ==
  LET i == IndexOf(s, c)
  IN IF i = 0 THEN <<s>>
     ELSE <<SubSeq(s, 1, i - 1)>> \o Split(SubSeq(s, i + 1, Len(s)), c)

\* pieces.join(sep)
RECURSIVE Join(_, _)
Join(pieces, sep) ==
  IF pieces = <<>> THEN <<>>
  ELSE IF Len(pieces) = 1 THEN pieces[1]
  ELSE pieces[1] \o sep \o Join(Tail(pieces), sep)

\* content.split(/\r?\n/): a CR right before the LF belongs to the separator
SplitLines(content) ==
  LET raw == Split(content, LF)
  IN [i \in 1..Len(raw) |->
        IF i < Len(raw) /\ raw[i] # <<>> /\ raw[i][Len(raw[i])] = CR
        THEN SubSeq(raw[i], 1, Len(raw[i]) - 1)
        ELSE raw[i]]

(***************************************************************************)
(* Ordered maps (plain objects with string keys)                           *)
(***************************************************************************)
HasKey(m, k) == \E i \in 1..Len(m) : m[i][1] = k

Get(m, k) == m[CHOOSE i \in 1..Len(m) : m[i][1] = k][2]

\* m[k] = v : an existing key keeps its position
Put(m, k, v) ==
  IF HasKey(m, k)
  THEN [i \in 1..Len(m) |-> IF m[i][1] = k THEN <<k, v>> ELSE m[i]]
  ELSE Append(m, <<k, v>>)

Keys(m) == [i \in 1..Len(m) |-> m[i][1]]

RECURSIVE Assign(_, _)
\* Object.assign(target, source)
Assign(target, source) ==
  IF source = <<>> THEN target
  ELSE Assign(Put(target, source[1][1], source[1][2]), Tail(source))

(***************************************************************************)
(* SECURITY_CONSTANTS                                                      *)
(***************************************************************************)
PREFIX == <<"E", "N", "C", "2", ":">>
SEPARATOR == ":"
EXPECTED_PARTS == 4

\* ENV_VAR_KEY_PATTERN  /^[A-Z_][A-Z0-9_]*$/i
MatchesEnvVarKeyPattern(key) ==
  /\ key # <<>>
  /\ key[1] \in Upper \cup Lower \cup {"_"}
  /\ \A i \in 2..Len(key) : key[i] \in Upper \cup Lower \cup Digit \cup {"_"}

\* /^[A-Za-z0-9+/]+=*$/
MatchesBase64Regex(part) ==
  \E n \in 1..Len(part) :
     /\ \A i \in 1..n : part[i] \in Upper \cup Lower \cup Digit \cup {"+", "/"}
     /\ \A i \in (n + 1)..Len(part) : part[i] = "="

(***************************************************************************)
(* StageEnvFileManager                                                     *)
(***************************************************************************)
NoVariable == <<>>

\* the lines of the file, given its content
readEnvironmentFileAsLines(content) ==
  IF content = <<>> THEN <<>> ELSE SplitLines(content)

\* the content written for the lines
writeEnvironmentFileLines(lines) == Join(lines, <<LF>>)

\* <<key, value>> of an assignment line, NoVariable for any other line
parseEnvironmentLine(line) ==
  LET trimmedLine == Trim(line)
  IN IF trimmedLine = <<>> \/ StartsWith(trimmedLine, <<"#">>)
        \/ ~Includes(trimmedLine, "=")
     THEN NoVariable
     ELSE LET equalIndex == IndexOf(trimmedLine, "=")
              key == Trim(SubSeq(trimmedLine, 1, equalIndex - 1))
              value == SubSeq(trimmedLine, equalIndex + 1, Len(trimmedLine))
          IN IF key = <<>> \/ ~MatchesEnvVarKeyPattern(key)
             THEN NoVariable
             ELSE <<key, value>>

RECURSIVE extractInto_firstWins(_, _)
\* an extraction that keeps the value of the first occurrence of a key
extractInto_firstWins(variables, lines) ==
  IF lines = <<>> THEN variables
  ELSE LET parsedVariable == parseEnvironmentLine(lines[1])
       IN extractInto_firstWins(
            IF parsedVariable = NoVariable \/ HasKey(variables, parsedVariable[1])
            THEN variables
            ELSE Put(variables, parsedVariable[1], parsedVariable[2]),
            Tail(lines))

RECURSIVE extractInto(_, _)
extractInto(variables, lines) ==
  IF lines = <<>> THEN variables
  ELSE LET parsedVariable == parseEnvironmentLine(lines[1])
       IN extractInto(IF parsedVariable = NoVariable THEN variables
                      ELSE Put(variables, parsedVariable[1], parsedVariable[2]),
                      Tail(lines))

extractEnvironmentVariables(lines) == extractInto(<<>>, lines)

\* a rewrite that normalises the lines it passes over
updateEnvironmentFileLines_trimsLines(existingLines, envVariable, value) ==
  LET assignment == envVariable \o <<"=">>
      isMatch(line) == StartsWith(Trim(line), assignment)
      updatedLines == [i \in 1..Len(existingLines) |->
                         IF isMatch(existingLines[i])
                         THEN assignment \o value
                         ELSE Trim(existingLines[i])]
      wasUpdated == \E i \in 1..Len(existingLines) : isMatch(existingLines[i])
  IN IF wasUpdated THEN updatedLines
     ELSE Append(updatedLines, assignment \o value)

updateEnvironmentFileLines(existingLines, envVariable, value) ==
  LET assignment == envVariable \o <<"=">>
      isMatch(line) == StartsWith(Trim(line), assignment)
      updatedLines == [i \in 1..Len(existingLines) |->
                         IF isMatch(existingLines[i])
                         THEN assignment \o value
                         ELSE existingLines[i]]
      wasUpdated == \E i \in 1..Len(existingLines) : isMatch(existingLines[i])
  IN IF wasUpdated THEN updatedLines
     ELSE Append(updatedLines, assignment \o value)

\* a lookup that tries the values before the keys
findEnvironmentVariableByKey_valueFirst(allEnvVariables, lookupValue) ==
  IF \E i \in 1..Len(allEnvVariables) : allEnvVariables[i][2] = lookupValue
  THEN LET i == CHOOSE i \in 1..Len(allEnvVariables) :
                   /\ allEnvVariables[i][2] = lookupValue
                   /\ \A j \in 1..(i - 1) : allEnvVariables[j][2] # lookupValue
       IN <<allEnvVariables[i]>>
  ELSE IF HasKey(allEnvVariables, lookupValue)
  THEN <<<<lookupValue, Get(allEnvVariables, lookupValue)>>>>
  ELSE <<>>

findEnvironmentVariableByKey(allEnvVariables, lookupValue) ==
  IF HasKey(allEnvVariables, lookupValue)
  THEN <<<<lookupValue, Get(allEnvVariables, lookupValue)>>>>
  ELSE IF \E i \in 1..Len(allEnvVariables) : allEnvVariables[i][2] = lookupValue
  THEN LET i == CHOOSE i \in 1..Len(allEnvVariables) :
                   /\ allEnvVariables[i][2] = lookupValue
                   /\ \A j \in 1..(i - 1) : allEnvVariables[j][2] # lookupValue
       IN <<allEnvVariables[i]>>
  ELSE <<>>

(***************************************************************************)
(* BaseEnvFileManager.  The regular expressions carry the flag m: ^ and $  *)
(* match at every line terminator, and . matches no line terminator.       *)
(***************************************************************************)
\* what String.prototype.match gives for group 1 when nothing matched
Undefined == <<"undefined">>

LineTerminators == {LF, CR}

\* the positions where ^ matches
LineStarts(fileContent) ==
  { p \in 1..(Len(fileContent) + 1) :
      p = 1 \/ fileContent[p - 1] \in LineTerminators }

\* the last position of the line that starts at p (p - 1 for an empty line)
LineEnd(fileContent, p) ==
  IF \E q \in p..Len(fileContent) : fileContent[q] \in LineTerminators
  THEN (CHOOSE q \in p..Len(fileContent) :
          /\ fileContent[q] \in LineTerminators
          /\ \A r \in p..(q - 1) : fileContent[r] \notin LineTerminators) - 1
  ELSE Len(fileContent)

\* where /^keyName=.*$/m matches first: [found, from, to]
createKeyRegex(fileContent, keyName) ==
  LET assignment == keyName \o <<"=">>
      matches == { p \in LineStarts(fileContent) :
                     StartsWith(SubSeq(fileContent, p, Len(fileContent)),
                                assignment) }
  IN IF matches = {} THEN [found |-> FALSE, from |-> 0, to |-> 0]
     ELSE LET p == CHOOSE p \in matches : \A q \in matches : p <= q
          IN [found |-> TRUE, from |-> p, to |-> LineEnd(fileContent, p)]

\* /^keyName=(.*)$/m matches where createKeyRegex does; group 1 is the value
extractKeyValue(fileContent, keyName) ==
  LET match == createKeyRegex(fileContent, keyName)
  IN IF match.found
     THEN SubSeq(fileContent, match.from + Len(keyName) + 1, match.to)
     ELSE Undefined

environmentKeyExists(fileContent, keyName) ==
  createKeyRegex(fileContent, keyName).found

\* fileContent.replace(regex, `${keyName}=${value}`): the first match only
updateExistingEnvironmentKey(fileContent, keyName, value) ==
  LET match == createKeyRegex(fileContent, keyName)
  IN SubSeq(fileContent, 1, match.from - 1)
       \o keyName \o <<"=">> \o value
       \o SubSeq(fileContent, match.to + 1, Len(fileContent))

addNewEnvironmentKey(fileContent, keyName, value) ==
  LET updatedContent ==
        IF fileContent # <<>> /\ fileContent[Len(fileContent)] # LF
        THEN fileContent \o <<LF>>
        ELSE fileContent
  IN updatedContent \o keyName \o <<"=">> \o value

\* a store that always adds a line
updateOrAddEnvironmentKey_alwaysAdds(fileContent, keyName, value) ==
  addNewEnvironmentKey(fileContent, keyName, value)

updateOrAddEnvironmentKey(fileContent, keyName, value) ==
  IF environmentKeyExists(fileContent, keyName)
  THEN updateExistingEnvironmentKey(fileContent, keyName, value)
  ELSE addNewEnvironmentKey(fileContent, keyName, value)

\* the content read; a missing file is created empty
getOrCreateBaseEnvFileContent(exists, content) ==
  IF exists THEN content ELSE <<>>

(***************************************************************************)
(* EncryptionManager: selection of the variables to encrypt                *)
(***************************************************************************)
isAlreadyEncrypted(value) ==
  IF value = <<>> THEN FALSE ELSE StartsWith(value, PREFIX)

RECURSIVE filterEncryptableVariables_keepsEmpty(_)
\* a filter that only skips the values already encrypted
filterEncryptableVariables_keepsEmpty(candidateVariables) ==
  IF candidateVariables = <<>> THEN <<>>
  ELSE LET key == candidateVariables[1][1]
           value == candidateVariables[1][2]
           rest == filterEncryptableVariables_keepsEmpty(Tail(candidateVariables))
       IN IF isAlreadyEncrypted(Trim(value)) THEN rest
          ELSE <<<<key, value>>>> \o rest

RECURSIVE filterEncryptableVariables(_)
filterEncryptableVariables(candidateVariables) ==
  IF candidateVariables = <<>> THEN <<>>
  ELSE LET key == candidateVariables[1][1]
           value == candidateVariables[1][2]
           trimmedValue == Trim(value)
           rest == filterEncryptableVariables(Tail(candidateVariables))
       IN IF trimmedValue = <<>> THEN rest
          ELSE IF isAlreadyEncrypted(trimmedValue) THEN rest
          ELSE <<<<key, value>>>> \o rest

RECURSIVE resolveNames(_, _, _, _)
\* the loop over the supplied names: the candidates and the names not found
resolveNames(allEnvVariables, envVariables, candidateVariables, notFoundVariables) ==
  IF envVariables = <<>>
  THEN [candidates |-> candidateVariables, notFound |-> notFoundVariables]
  ELSE LET foundVariable ==
             findEnvironmentVariableByKey(allEnvVariables, envVariables[1])
       IN IF foundVariable = <<>>
          THEN resolveNames(allEnvVariables, Tail(envVariables), candidateVariables,
                            Append(notFoundVariables, envVariables[1]))
          ELSE resolveNames(allEnvVariables, Tail(envVariables),
                            Assign(candidateVariables, foundVariable),
                            notFoundVariables)

\* [variables: the variables to encrypt, notFound: the names logged as not found]
resolveVariablesToEncrypt(allEnvVariables, envVariables) ==
  LET resolved == IF envVariables = <<>>
                  THEN [candidates |-> allEnvVariables, notFound |-> <<>>]
                  ELSE resolveNames(allEnvVariables, envVariables, <<>>, <<>>)
  IN [variables |-> filterEncryptableVariables(resolved.candidates),
      notFound |-> resolved.notFound]

(***************************************************************************)
(* CryptoManager.  Byte strings are written in their base64 form, one or   *)
(* two base64 characters per character of text; keys, salts and IVs are    *)
(* short base64 strings.  The primitives are symbolic: a ciphertext names  *)
(* the key and IV it was made with, a tag names the HMAC key and the data. *)
(***************************************************************************)
NoKey == <<>>

Ok(v) == [ok |-> TRUE, value |-> v, error |-> "none"]
Err(e) == [ok |-> FALSE, value |-> <<>>, error |-> e]

\* UTF-8 bytes of one character
bytesOfChar(c) ==
  CASE c = SP -> <<"+">>
    [] c = "=" -> <<"/", "e">>
    [] c = ":" -> <<"/", "c">>
    [] c = "#" -> <<"/", "h">>
    [] c = "_" -> <<"/", "u">>
    [] c = "+" -> <<"/", "p">>
    [] c = "/" -> <<"/", "s">>
    [] c = BOM -> <<"/", "b">>
    [] OTHER -> <<c>>

\* the character a byte sequence starts with, and how many bytes it takes
charOfBytes(b) ==
  IF b[1] = "+" THEN [char |-> SP, width |-> 1]
  ELSE IF b[1] # "/" THEN [char |-> b[1], width |-> 1]
  ELSE IF Len(b) < 2 THEN [char |-> "?", width |-> 1]
  ELSE [char |-> CASE b[2] = "e" -> "="
                   [] b[2] = "c" -> ":"
                   [] b[2] = "h" -> "#"
                   [] b[2] = "u" -> "_"
                   [] b[2] = "p" -> "+"
                   [] b[2] = "s" -> "/"
                   [] b[2] = "b" -> BOM
                   [] OTHER -> "?",
        width |-> 2]

RECURSIVE TextEncoderEncode(_)
\* new TextEncoder().encode(value)
TextEncoderEncode(value) ==
  IF value = <<>> THEN <<>>
  ELSE bytesOfChar(Head(value)) \o TextEncoderEncode(Tail(value))

RECURSIVE utf8Characters(_)
utf8Characters(bytes) ==
  IF bytes = <<>> THEN <<>>
  ELSE LET first == charOfBytes(bytes)
       IN <<first.char>> \o
          utf8Characters(SubSeq(bytes, first.width + 1, Len(bytes)))

\* new TextDecoder().decode(bytes): ignoreBOM is false, a leading BOM is dropped
TextDecoderDecode(bytes) ==
  LET text == utf8Characters(bytes)
  IN IF text # <<>> /\ Head(text) = BOM THEN Tail(text) ELSE text

getSecretKeyFromEnvironment(masterKey) ==
  IF masterKey = NoKey THEN Err("MissingSecretKeyError") ELSE Ok(masterKey)

\* a derivation whose HMAC key does not depend on the secret key
deriveKeysWithArgon2_saltOnly(secretKey, salt) ==
  [encryptionKey |-> secretKey \o salt \o <<"e">>,
   hmacKey |-> salt \o <<"h">>]

deriveKeysWithArgon2(secretKey, salt) ==
  [encryptionKey |-> secretKey \o salt \o <<"e">>,
   hmacKey |-> secretKey \o salt \o <<"h">>]

\* AES-256-GCM: ciphertext and authentication tag
aesGcmEncrypt(plainBytes, encryptionKey, iv) == encryptionKey \o iv \o plainBytes

performDecryption(iv, encryptionKey, cipherText) ==
  LET head == encryptionKey \o iv
  IN IF StartsWith(cipherText, head)
     THEN Ok(SubSeq(cipherText, Len(head) + 1, Len(cipherText)))
     ELSE Err("DecryptionError")

\* HMAC-SHA256 over salt || iv || cipherText
computeHMAC(salt, iv, cipherText, hmacKey) == hmacKey \o salt \o iv \o cipherText

verifyHMAC(salt, iv, cipherText, receivedHmac, hmacKey) ==
  computeHMAC(salt, iv, cipherText, hmacKey) = receivedHmac

\* PREFIX + salt:iv:cipherText:hmac
encodeEnvelope(salt, iv, cipherText, hmac) ==
  PREFIX \o Join(<<salt, iv, cipherText, hmac>>, <<SEPARATOR>>)

\* a string is an envelope iff it is PREFIX and 4 non-empty base64 segments
isEnvelope(value) ==
  /\ StartsWith(value, PREFIX)
  /\ LET parts == Split(SubSeq(value, Len(PREFIX) + 1, Len(value)), SEPARATOR)
     IN /\ Len(parts) = EXPECTED_PARTS
        /\ \A i \in 1..Len(parts) : parts[i] # <<>> /\ MatchesBase64Regex(parts[i])

parseEncryptedData(encryptedData) ==
  IF ~isEnvelope(encryptedData) THEN Err("FormatError")
  ELSE Ok(Split(SubSeq(encryptedData, Len(PREFIX) + 1, Len(encryptedData)),
                SEPARATOR))

createEncryptedPayload(value, salt, iv, encryptionKey, hmacKey) ==
  LET cipherText == aesGcmEncrypt(TextEncoderEncode(value), encryptionKey, iv)
  IN encodeEnvelope(salt, iv, cipherText,
                    computeHMAC(salt, iv, cipherText, hmacKey))

(***************************************************************************)
(* CryptoService                                                           *)
(***************************************************************************)
\* encrypt(value, secretKeyVariable) when the fresh salt and IV are salt and iv
encrypt(value, masterKey, salt, iv) ==
  LET secretKey == getSecretKeyFromEnvironment(masterKey)
  IN IF ~secretKey.ok THEN secretKey
     ELSE LET keys == deriveKeysWithArgon2(secretKey.value, salt)
          IN Ok(createEncryptedPayload(value, salt, iv,
                                       keys.encryptionKey, keys.hmacKey))

\* the steps of decrypt after the envelope is parsed and the keys are derived
decryptParsed(parts, keys) ==
  IF ~verifyHMAC(parts[1], parts[2], parts[3], parts[4], keys.hmacKey)
  THEN Err("IntegrityError")
  ELSE LET decryptedBuffer ==
             performDecryption(parts[2], keys.encryptionKey, parts[3])
       IN IF ~decryptedBuffer.ok THEN decryptedBuffer
          ELSE Ok(TextDecoderDecode(decryptedBuffer.value))

decrypt(encryptedData, masterKey) ==
  LET resolvedSecretKey == getSecretKeyFromEnvironment(masterKey)
  IN IF ~resolvedSecretKey.ok THEN resolvedSecretKey
     ELSE LET parsed == parseEncryptedData(encryptedData)
          IN IF ~parsed.ok THEN parsed
             ELSE decryptParsed(parsed.value,
                    deriveKeysWithArgon2(resolvedSecretKey.value, parsed.value[1]))

(***************************************************************************)
(* EncryptionValidator                                                     *)
(***************************************************************************)
\* one line of loadEnvironmentVariables: <<key, value>> or NoVariable
loadedVariableOfLine(line) ==
  LET trimmedLine == Trim(line)
  IN IF trimmedLine = <<>> \/ StartsWith(trimmedLine, <<"#">>) THEN NoVariable
     ELSE LET pieces == Split(trimmedLine, "=")
              key == pieces[1]
              valueParts == Tail(pieces)
          IN IF key # <<>> /\ valueParts # <<>>
             THEN <<Trim(key), Trim(Join(valueParts, <<"=">>))>>
             ELSE NoVariable

RECURSIVE loadInto(_, _)
loadInto(envVars, lines) ==
  IF lines = <<>> THEN envVars
  ELSE LET loaded == loadedVariableOfLine(lines[1])
       IN loadInto(IF loaded = NoVariable THEN envVars
                   ELSE Put(envVars, loaded[1], loaded[2]),
                   Tail(lines))

loadEnvironmentVariables(envContent) == loadInto(<<>>, Split(envContent, LF))

\* a test that asks for at least EXPECTED_PARTS segments
isEncrypted_atLeastExpectedParts(value) ==
  IF value = <<>> THEN FALSE
  ELSE IF ~StartsWith(value, PREFIX) THEN FALSE
  ELSE LET withoutPrefix == SubSeq(value, Len(PREFIX) + 1, Len(value))
           parts == Split(withoutPrefix, SEPARATOR)
       IN IF Len(parts) < EXPECTED_PARTS THEN FALSE
          ELSE \A i \in 1..Len(parts) :
                  Len(parts[i]) > 0 /\ MatchesBase64Regex(parts[i])

\* a test of the prefix alone
isEncrypted_prefixOnly(value) ==
  IF value = <<>> THEN FALSE ELSE StartsWith(value, PREFIX)

isEncrypted(value) ==
  IF value = <<>> THEN FALSE
  ELSE IF ~StartsWith(value, PREFIX) THEN FALSE
  ELSE LET withoutPrefix == SubSeq(value, Len(PREFIX) + 1, Len(value))
           parts == Split(withoutPrefix, SEPARATOR)
       IN IF Len(parts) # EXPECTED_PARTS THEN FALSE
          ELSE \A i \in 1..Len(parts) :
                  Len(parts[i]) > 0 /\ MatchesBase64Regex(parts[i])

RECURSIVE validateInto(_, _, _)
validateInto(results, envVars, varNames) ==
  IF varNames = <<>> THEN results
  ELSE LET varName == varNames[1]
           encrypted == IF HasKey(envVars, varName) /\ Get(envVars, varName) # <<>>
                        THEN isEncrypted(Get(envVars, varName))
                        ELSE FALSE
       IN validateInto(Put(results, varName, encrypted), envVars, Tail(varNames))

\* the mapping validateEncryption(varNames) returns for a file with envContent
validateEncryption(envContent, varNames) ==
  validateInto(<<>>, loadEnvironmentVariables(envContent), varNames)

\* a view that is true when some requested name is encrypted
areAllEncrypted_someEncrypted(envContent, varNames) ==
  LET results == validateEncryption(envContent, varNames)
  IN \E i \in 1..Len(results) : results[i][2]

\* Object.values(results).every((isEncrypted) => isEncrypted)
areAllEncrypted(envContent, varNames) ==
  LET results == validateEncryption(envContent, varNames)
  IN \A i \in 1..Len(results) : results[i][2]

\* the names of the entries of the mapping that are false, in entry order
getUnencryptedVariables(envContent, varNames) ==
  LET results == validateEncryption(envContent, varNames)
  IN Keys(SelectSeq(results, LAMBDA entry : ~entry[2]))

(***************************************************************************)
(* Inputs of the model                                                     *)
(***************************************************************************)
MaxLines == 2

\* the lines a stage file is made of
LineCatalogue ==
  { <<SP, "#", "c", CR>>,
    <<>>,
    <<"A", "=", "x">>,
    <<"A", "=">>,
    <<"A", SP, "=", SP, "y">>,
    <<"B", "=", "x">>,
    <<"A", "=", "E", "N", "C", "2", ":", "z">>,
    <<"B", "=", "E", "N", "C", "2", ":", "a", ":", "b", ":", "c", ":", "d", "=">> }

InitialContents ==
  { Join(lines, <<LF>>) :
      lines \in UNION { [1..n -> LineCatalogue] : n \in 0..MaxLines } }

\* stage files in which the key of one variable is the value of another
KeyAsValueContents ==
  { Join(<< <<"A", "=", "B">>, <<"B", "=", "x">> >>, <<LF>>),
    Join(<< <<"B", "=", "x">>, <<"A", "=", "B">> >>, <<LF>>),
    Join(<< <<"A", "=", "x">>, <<"B", "=", "A">> >>, <<LF>>) }

\* stage files whose value has whitespace around or inside it
PaddedValueContents ==
  { <<"A", "=", SP, "x">>,
    <<"A", "=", "\t", BOM, "x", SP, "y", SP>>,
    <<"A", "=", "x", BOM, "y">> }

\* the argument lists of encryptEnvironmentVariables
NameLists ==
  { <<>>,
    << <<"A">> >>,
    << <<"B">> >>,
    << <<"Z">> >>,
    << <<"x">> >>,
    << <<"A">>, <<"B">> >>,
    << <<"Z">>, <<"x">> >> }

\* the argument lists of validateEncryption
VarNameLists ==
  { <<>>,
    << <<"A">>, <<"B">>, <<"Z">> >>,
    << <<"B">>, <<"x">>, <<"B">> >> }

MasterKeys == { <<"k">>, <<"m">> }

\* what the random generator can return for a salt and an IV
Salts == { <<"s">>, <<"t">> }
IVs == { <<"i">>, <<"j">> }
Randomness == { <<<<"s">>, <<"i">>>>, <<<<"t">>, <<"j">>>> }

(***************************************************************************)
(* State                                                                   *)
(***************************************************************************)
VARIABLES
  fileExists,        \* whether the stage file exists
  fileContent,       \* its content
  masterKey,         \* process.env[SECRET_KEY_<STAGE>], NoKey when unset
  pc,                \* where the run of encryptEnvironmentVariables stands
  envVariables,      \* the run's argument
  envFileLines,      \* the lines the run read
  variablesToEncrypt,
  cursor,            \* position of the loop in variablesToEncrypt
  updatedLines,
  encryptedCount,
  fileAtStart,       \* the content when the run started
  writeCount,        \* calls of writeEnvironmentFileLines in the run
  encryptCalls,      \* <<key, value>> of each CryptoService.encrypt call of the run
  notFoundLogged,    \* names of the run's "not found" warning
  summaryCount,      \* calls of logEncryptionSummary in the run
  failure,           \* the error the run raised, "none" when none
  isRerun,           \* the run repeats the arguments of a run that just succeeded
  validation,        \* the validateEncryption call in progress and its outcome
  batchOp,           \* "none", or the batch running: "encrypt" or "decrypt"
  members,           \* the CryptoService.encrypt/decrypt call of each batch member
  batchResult,       \* the promise encryptMultiple/decryptMultiple returned
  produced,          \* what the last encrypt calls returned: value, key, envelope
  baseFileExists,    \* whether the base environment file exists
  baseFileContent,   \* its content
  generatedSecretKey, \* the key the last generateSecretKey call generated
  baseContentBefore, \* the content that call read
  secretKeyValue,    \* what the last getSecretKeyValue call returned
  runs,              \* two callers of encryptEnvironmentVariables on one file
  LOGGED_ERRORS_CACHE, \* the keys of the errors logged, oldest first
  MATCH_RESULT_CACHE,  \* the keys of the cached message analyses, oldest first
  cacheCalls,        \* calls made on the caches
  lastCall           \* the last of them, and the sizes it found

runVars ==
  <<pc, envVariables, envFileLines, variablesToEncrypt, cursor, updatedLines,
    encryptedCount, fileAtStart, writeCount, encryptCalls, notFoundLogged,
    summaryCount, failure, isRerun>>

fileVars == <<fileExists, fileContent, runVars, validation>>

cryptoVars == <<batchOp, members, batchResult, produced>>

baseVars ==
  <<baseFileExists, baseFileContent, generatedSecretKey, baseContentBefore,
    secretKeyValue>>

cacheVars == <<LOGGED_ERRORS_CACHE, MATCH_RESULT_CACHE, cacheCalls, lastCall>>

vars == <<masterKey, fileVars, cryptoVars, baseVars, runs, cacheVars>>

RunIds == {1, 2}

\* a caller that has not called yet
IdleRun ==
  [pc |-> "idle", envVariables |-> <<>>, envFileLines |-> <<>>,
   variablesToEncrypt |-> <<>>, cursor |-> 1, updatedLines |-> <<>>,
   encryptedCount |-> 0, startedAlone |-> TRUE, wroteAt |-> 0]

NoRuns == [r \in RunIds |-> IdleRun]

NoLookup == [called |-> FALSE, value |-> Undefined]

\* no generateSecretKey or getSecretKeyValue call has been made
NoKeyOperation ==
  /\ generatedSecretKey = NoKey
  /\ baseContentBefore = <<>>
  /\ secretKeyValue = NoLookup

\* the base environment file plays no part
NoBaseFile ==
  /\ baseFileExists = FALSE
  /\ baseFileContent = <<>>
  /\ NoKeyOperation

NoCall == [op |-> "none", loggedBefore |-> 0, matchBefore |-> 0]

\* the caches are empty and no call was made on them
NoCaches ==
  /\ LOGGED_ERRORS_CACHE = <<>>
  /\ MATCH_RESULT_CACHE = <<>>
  /\ cacheCalls = 0
  /\ lastCall = NoCall

NoBatch == [state |-> "none", values |-> <<>>, error |-> "none"]

NoValidation ==
  [called |-> FALSE, op |-> "none", names |-> <<>>, ok |-> TRUE, result |-> <<>>,
   from |-> "idle"]

Init ==
  /\ fileExists \in BOOLEAN
  /\ fileContent \in (IF fileExists
                      THEN InitialContents \cup KeyAsValueContents
                             \cup PaddedValueContents
                      ELSE {<<>>})
  /\ masterKey \in {NoKey, <<"k">>}
  /\ pc = "idle"
  /\ envVariables = <<>>
  /\ envFileLines = <<>>
  /\ variablesToEncrypt = <<>>
  /\ cursor = 1
  /\ updatedLines = <<>>
  /\ encryptedCount = 0
  /\ fileAtStart = fileContent
  /\ writeCount = 0
  /\ encryptCalls = <<>>
  /\ notFoundLogged = <<>>
  /\ summaryCount = 0
  /\ failure = "none"
  /\ isRerun = FALSE
  /\ validation = NoValidation
  /\ batchOp = "none"
  /\ members = <<>>
  /\ batchResult = NoBatch
  /\ produced = <<>>
  /\ NoBaseFile
  /\ runs = NoRuns
  /\ NoCaches

Resting == pc \in {"idle", "done", "failed"}

(***************************************************************************)
(* EncryptionManager.encryptEnvironmentVariables                           *)
(***************************************************************************)
\* the call up to its first CryptoService.encrypt: read, extract, resolve
StartRun(names) ==
  /\ Resting
  /\ envVariables' = names
  /\ isRerun' = (pc = "done" /\ names = envVariables)
  /\ fileAtStart' = fileContent
  /\ writeCount' = 0
  /\ encryptCalls' = <<>>
  /\ summaryCount' = 0
  /\ encryptedCount' = 0
  /\ cursor' = 1
  /\ UNCHANGED <<cacheVars, fileExists, fileContent, masterKey, validation, cryptoVars, baseVars, runs>>
  /\ IF ~fileExists
     THEN /\ pc' = "failed"
          /\ failure' = "FileNotFound"
          /\ envFileLines' = <<>>
          /\ variablesToEncrypt' = <<>>
          /\ updatedLines' = <<>>
          /\ notFoundLogged' = <<>>
     ELSE LET lines == readEnvironmentFileAsLines(fileContent)
              allEnvVariables == extractEnvironmentVariables(lines)
              resolved == resolveVariablesToEncrypt(allEnvVariables, names)
          IN /\ envFileLines' = lines
             /\ updatedLines' = lines
             /\ failure' = "none"
             /\ IF allEnvVariables = <<>>
                THEN /\ pc' = "done"
                     /\ variablesToEncrypt' = <<>>
                     /\ notFoundLogged' = <<>>
                ELSE /\ variablesToEncrypt' = resolved.variables
                     /\ notFoundLogged' = resolved.notFound
                     /\ pc' = IF resolved.variables = <<>> THEN "done"
                              ELSE "encrypting"

\* a loop that goes to the write as soon as one variable is encrypted
afterVariable_writesAtOnce(count) ==
  IF count > 0 THEN "write"
  ELSE IF cursor < Len(variablesToEncrypt) THEN "encrypting"
  ELSE "summary"

\* where the run goes once the loop has handled the variable at the cursor
afterVariable(count) ==
  IF cursor < Len(variablesToEncrypt) THEN "encrypting"
  ELSE IF count > 0 THEN "write"
  ELSE "summary"

\* a pass that encrypts the value as it was parsed
EncryptVariable_untrimmed ==
  /\ pc = "encrypting"
  /\ \E random \in Randomness :
       LET key == variablesToEncrypt[cursor][1]
           value == variablesToEncrypt[cursor][2]
           encryptedValue == encrypt(value, masterKey, random[1], random[2])
       IN /\ encryptedValue.ok
          /\ encryptCalls' = Append(encryptCalls, <<key, value>>)
          /\ updatedLines' =
               updateEnvironmentFileLines(updatedLines, key, encryptedValue.value)
          /\ encryptedCount' = encryptedCount + 1
          /\ cursor' = cursor + 1
          /\ pc' = afterVariable(encryptedCount + 1)
  /\ UNCHANGED <<cacheVars, fileExists, fileContent, masterKey, envVariables, envFileLines,
                 variablesToEncrypt, fileAtStart, writeCount, notFoundLogged,
                 summaryCount, failure, isRerun, validation, cryptoVars, baseVars, runs>>

\* a pass that takes the variables from the last to the first
EncryptVariable_lastFirst ==
  /\ pc = "encrypting"
  /\ \E random \in Randomness :
       LET position == Len(variablesToEncrypt) - cursor + 1
           key == variablesToEncrypt[position][1]
           value == Trim(variablesToEncrypt[position][2])
           encryptedValue == encrypt(value, masterKey, random[1], random[2])
       IN /\ encryptedValue.ok
          /\ encryptCalls' = Append(encryptCalls, <<key, value>>)
          /\ updatedLines' =
               updateEnvironmentFileLines(updatedLines, key, encryptedValue.value)
          /\ encryptedCount' = encryptedCount + 1
          /\ cursor' = cursor + 1
          /\ pc' = afterVariable(encryptedCount + 1)
  /\ UNCHANGED <<cacheVars, fileExists, fileContent, masterKey, envVariables, envFileLines,
                 variablesToEncrypt, fileAtStart, writeCount, notFoundLogged,
                 summaryCount, failure, isRerun, validation, cryptoVars, baseVars, runs>>

\* one pass of the loop whose CryptoService.encrypt call returns an envelope
EncryptVariable ==
  /\ pc = "encrypting"
  /\ \E random \in Randomness :
       LET key == variablesToEncrypt[cursor][1]
           value == Trim(variablesToEncrypt[cursor][2])
           encryptedValue == encrypt(value, masterKey, random[1], random[2])
       IN /\ encryptedValue.ok
          /\ encryptCalls' = Append(encryptCalls, <<key, value>>)
          /\ updatedLines' =
               updateEnvironmentFileLines(updatedLines, key, encryptedValue.value)
          /\ encryptedCount' = encryptedCount + 1
          /\ cursor' = cursor + 1
          /\ pc' = afterVariable(encryptedCount + 1)
  /\ UNCHANGED <<cacheVars, fileExists, fileContent, masterKey, envVariables, envFileLines,
                 variablesToEncrypt, fileAtStart, writeCount, notFoundLogged,
                 summaryCount, failure, isRerun, validation, cryptoVars, baseVars, runs>>

\* a loop that notes the failed variable and goes on to the next one
onEncryptionError_goesOn(error) ==
  /\ pc' = afterVariable(encryptedCount)
  /\ failure' = error
  /\ cursor' = cursor + 1
  /\ UNCHANGED <<updatedLines, encryptedCount>>

\* how the loop leaves a pass whose encrypt call threw error
onEncryptionError(error) ==
  /\ pc' = "failed"
  /\ failure' = error
  /\ UNCHANGED <<cursor, updatedLines, encryptedCount>>

\* one pass of the loop whose CryptoService.encrypt call throws: the key is
\* missing, or the key derivation or the cipher fails
EncryptVariableFails ==
  /\ pc = "encrypting"
  /\ LET key == variablesToEncrypt[cursor][1]
         value == Trim(variablesToEncrypt[cursor][2])
         secretKey == getSecretKeyFromEnvironment(masterKey)
     IN /\ encryptCalls' = Append(encryptCalls, <<key, value>>)
        /\ onEncryptionError(IF secretKey.ok THEN "KeyDerivationError"
                             ELSE secretKey.error)
  /\ UNCHANGED <<cacheVars, fileExists, fileContent, masterKey, envVariables, envFileLines,
                 variablesToEncrypt, fileAtStart, writeCount, notFoundLogged,
                 summaryCount, isRerun, validation, cryptoVars, baseVars, runs>>

\* await StageEnvFileManager.writeEnvironmentFileLines(filePath, updatedLines)
WriteFile ==
  /\ pc = "write"
  /\ fileContent' = writeEnvironmentFileLines(updatedLines)
  /\ writeCount' = writeCount + 1
  /\ pc' = "summary"
  /\ UNCHANGED <<cacheVars, fileExists, masterKey, envVariables, envFileLines,
                 variablesToEncrypt, cursor, updatedLines, encryptedCount,
                 fileAtStart, encryptCalls, notFoundLogged, summaryCount,
                 failure, isRerun, validation, cryptoVars, baseVars, runs>>

\* await this.logEncryptionSummary(...)
LogSummary ==
  /\ pc = "summary"
  /\ summaryCount' = summaryCount + 1
  /\ pc' = "done"
  /\ UNCHANGED <<cacheVars, fileExists, fileContent, masterKey, envVariables, envFileLines,
                 variablesToEncrypt, cursor, updatedLines, encryptedCount,
                 fileAtStart, writeCount, encryptCalls, notFoundLogged,
                 failure, isRerun, validation, cryptoVars, baseVars, runs>>

(***************************************************************************)
(* EncryptionValidator.validateEncryption                                  *)
(***************************************************************************)
\* the call: the file is read and every requested name is classified
Validate(varNames) ==
  /\ Resting
  /\ pc' = "validated"
  /\ validation' =
       IF fileExists
       THEN [called |-> TRUE, op |-> "validateEncryption", names |-> varNames,
             ok |-> TRUE, result |-> validateEncryption(fileContent, varNames),
             from |-> pc]
       ELSE [called |-> TRUE, op |-> "validateEncryption", names |-> varNames,
             ok |-> FALSE, result |-> <<>>, from |-> pc]
  /\ UNCHANGED <<cacheVars, fileExists, fileContent, masterKey, envVariables, envFileLines,
                 variablesToEncrypt, cursor, updatedLines, encryptedCount,
                 fileAtStart, writeCount, encryptCalls, notFoundLogged,
                 summaryCount, failure, isRerun, cryptoVars, baseVars, runs>>

\* the caller has taken the mapping (or the error)
ValidateReturns ==
  /\ pc = "validated"
  /\ pc' = validation.from
  /\ validation' = NoValidation
  /\ UNCHANGED <<cacheVars, fileExists, fileContent, masterKey, envVariables, envFileLines,
                 variablesToEncrypt, cursor, updatedLines, encryptedCount,
                 fileAtStart, writeCount, encryptCalls, notFoundLogged,
                 summaryCount, failure, isRerun, cryptoVars, baseVars, runs>>

(***************************************************************************)
(* CryptoService calls.  A member is one call of CryptoService.encrypt or  *)
(* CryptoService.decrypt; it runs from one await to the next in a step.    *)
(* encryptMultiple and decryptMultiple start a member per input at once    *)
(* and hand the members' promises to Promise.all.                          *)
(***************************************************************************)
PlainValues ==
  { <<"x">>, <<"a", "=", "b">>, <<BOM, "x">> }

EncryptInputLists ==
  { <<>>,
    << <<"x">> >>,
    << <<BOM, "x">> >>,
    << <<"a", "=", "b">>, <<"x">> >> }

\* an envelope with segment n replaced
withSegment(envelope, n, segment) ==
  LET parts == Split(SubSeq(envelope, Len(PREFIX) + 1, Len(envelope)), SEPARATOR)
  IN PREFIX \o Join([parts EXCEPT ![n] = segment], <<SEPARATOR>>)

segmentOf(envelope, n) ==
  Split(SubSeq(envelope, Len(PREFIX) + 1, Len(envelope)), SEPARATOR)[n]

\* what a caller can hand to decrypt, given an envelope encrypt returned
DecryptInputsFrom(envelope) ==
  { envelope,
    withSegment(envelope, 4, <<"z">>),
    withSegment(envelope, 4, segmentOf(envelope, 4) \o <<"A">>),
    withSegment(envelope, 3, segmentOf(envelope, 3) \o <<"A">>),
    withSegment(envelope, 3, <<"z">>) }

MalformedInputs ==
  { <<"E", "N", "C", "2", ":", "o">>,
    <<"E", "N", "C", "2", ":", "a", ":", "b", ":", "c", ":", "!">> }

\* the input lists of a decrypt batch: one or two inputs
DecryptInputLists ==
  LET fromFirst == IF produced = <<>> THEN {}
                   ELSE DecryptInputsFrom(produced[1].envelope)
      fromOthers == { produced[j].envelope : j \in 2..Len(produced) }
      single == fromFirst \cup fromOthers \cup MalformedInputs
  IN { <<>> } \cup { <<d>> : d \in single }
       \cup { <<d, e>> : d \in fromFirst, e \in fromOthers \cup MalformedInputs }
       \cup { <<d, e>> : d \in MalformedInputs, e \in fromFirst }
       \cup { <<withSegment(produced[j].envelope, 4, <<"z">>),
                withSegment(produced[j].envelope, 3, <<"z">>)>> :
                j \in 1..Len(produced) }

CryptoInit ==
  /\ fileExists = FALSE
  /\ fileContent = <<>>
  /\ masterKey \in {NoKey} \cup MasterKeys
  /\ pc = "idle"
  /\ envVariables = <<>>
  /\ envFileLines = <<>>
  /\ variablesToEncrypt = <<>>
  /\ cursor = 1
  /\ updatedLines = <<>>
  /\ encryptedCount = 0
  /\ fileAtStart = <<>>
  /\ writeCount = 0
  /\ encryptCalls = <<>>
  /\ notFoundLogged = <<>>
  /\ summaryCount = 0
  /\ failure = "none"
  /\ isRerun = FALSE
  /\ validation = NoValidation
  /\ batchOp = "none"
  /\ members = <<>>
  /\ batchResult = NoBatch
  /\ produced = <<>>
  /\ NoBaseFile
  /\ runs = NoRuns
  /\ NoCaches

Finished(member) == member.pc \in {"done", "failed"}

AllFinished == \A i \in 1..Len(members) : Finished(members[i])

NewMember(input, firstAwait) ==
  [pc |-> firstAwait, input |-> input, key |-> NoKey, salt |-> <<>>, iv |-> <<>>,
   parts |-> <<>>, out |-> <<>>, error |-> "none"]

\* Promise.allSettled-like: waits for every member and keeps the values of
\* those that returned
promiseAll_keepsFulfilled(result, after) ==
  IF result.state # "pending" THEN result
  ELSE IF \A i \in 1..Len(after) : after[i].pc \in {"done", "failed"}
  THEN LET returned == SelectSeq(after, LAMBDA member : member.pc = "done")
       IN [state |-> "fulfilled",
           values |-> [i \in 1..Len(returned) |-> returned[i].out],
           error |-> "none"]
  ELSE result

\* Promise.all: rejected by the first member that fails, fulfilled with
\* the members' values in input order once every member is done
promiseAll(result, after) ==
  IF result.state # "pending" THEN result
  ELSE IF \E i \in 1..Len(after) : after[i].pc = "failed"
  THEN LET i == CHOOSE i \in 1..Len(after) : after[i].pc = "failed"
       IN [state |-> "rejected", values |-> <<>>, error |-> after[i].error]
  ELSE IF \A i \in 1..Len(after) : after[i].pc = "done"
  THEN [state |-> "fulfilled", values |-> [i \in 1..Len(after) |-> after[i].out],
        error |-> "none"]
  ELSE result

\* encryptMultiple(values, secretKeyVariable)
EncryptMultiple(values) ==
  /\ batchOp = "none" \/ AllFinished
  /\ batchOp' = "encrypt"
  /\ LET started == [i \in 1..Len(values) |->
                      NewMember(values[i], "prerequisites")]
     IN /\ members' = started
        /\ batchResult' = promiseAll([NoBatch EXCEPT !.state = "pending"], started)
  /\ produced' = <<>>
  /\ UNCHANGED <<cacheVars, runs, baseVars, masterKey, fileVars>>

\* an encrypt that generates the salt and the IV before it looks for the key
encryptStep_generatesFirst(member, random) ==
  CASE member.pc = "prerequisites" ->
         [member EXCEPT !.pc = "components", !.salt = random[1], !.iv = random[2]]
    [] member.pc = "components" ->
         LET secretKey == getSecretKeyFromEnvironment(masterKey)
         IN IF secretKey.ok
            THEN [member EXCEPT !.pc = "payload", !.key = secretKey.value]
            ELSE [member EXCEPT !.pc = "failed", !.error = secretKey.error]
    [] member.pc = "payload" ->
         LET keys == deriveKeysWithArgon2(member.key, member.salt)
         IN [member EXCEPT !.pc = "done",
               !.out = createEncryptedPayload(member.input, member.salt, member.iv,
                                              keys.encryptionKey, keys.hmacKey)]

\* member i of an encrypt batch after its pending await has settled
encryptStep(member, random) ==
  CASE member.pc = "prerequisites" ->
         LET secretKey == getSecretKeyFromEnvironment(masterKey)
         IN IF secretKey.ok
            THEN [member EXCEPT !.pc = "components", !.key = secretKey.value]
            ELSE [member EXCEPT !.pc = "failed", !.error = secretKey.error]
    [] member.pc = "components" ->
         [member EXCEPT !.pc = "payload", !.salt = random[1], !.iv = random[2]]
    [] member.pc = "payload" ->
         LET keys == deriveKeysWithArgon2(member.key, member.salt)
         IN [member EXCEPT !.pc = "done",
               !.out = createEncryptedPayload(member.input, member.salt, member.iv,
                                              keys.encryptionKey, keys.hmacKey)]

EncryptStep(i) ==
  /\ batchOp = "encrypt"
  /\ i \in 1..Len(members)
  /\ ~Finished(members[i])
  /\ \E random \in Randomness :
       LET after == [members EXCEPT ![i] = encryptStep(members[i], random)]
       IN /\ members' = after
          /\ batchResult' = promiseAll(batchResult, after)
          /\ produced' = IF after[i].pc = "done"
                         THEN Append(produced, [value |-> after[i].input,
                                                key |-> after[i].key,
                                                envelope |-> after[i].out])
                         ELSE produced
  /\ UNCHANGED <<cacheVars, runs, baseVars, masterKey, fileVars, batchOp>>

\* the key derivation of member i fails (Argon2 cannot get its memory)
EncryptStepFails(i) ==
  /\ batchOp = "encrypt"
  /\ i \in 1..Len(members)
  /\ members[i].pc = "components"
  /\ LET after == [members EXCEPT ![i] = [@ EXCEPT !.pc = "failed",
                                               !.error = "KeyDerivationError"]]
     IN /\ members' = after
        /\ batchResult' = promiseAll(batchResult, after)
  /\ UNCHANGED <<cacheVars, runs, baseVars, masterKey, fileVars, batchOp, produced>>

\* decryptMultiple(encryptedValues, secretKeyVariable)
DecryptMultiple(encryptedValues) ==
  /\ batchOp = "none" \/ AllFinished
  /\ batchOp' = "decrypt"
  /\ LET started == [i \in 1..Len(encryptedValues) |->
                      NewMember(encryptedValues[i], "getSecretKey")]
     IN /\ members' = started
        /\ batchResult' = promiseAll([NoBatch EXCEPT !.state = "pending"], started)
  /\ UNCHANGED <<cacheVars, runs, baseVars, masterKey, fileVars, produced>>

\* a decrypt that goes on to the decryption whatever the tag
decryptStep_ignoresTag(member) ==
  CASE member.pc = "getSecretKey" ->
         LET resolvedSecretKey == getSecretKeyFromEnvironment(masterKey)
             parsed == parseEncryptedData(member.input)
         IN IF ~resolvedSecretKey.ok
            THEN [member EXCEPT !.pc = "failed", !.error = resolvedSecretKey.error]
            ELSE IF ~parsed.ok
            THEN [member EXCEPT !.pc = "failed", !.error = parsed.error]
            ELSE [member EXCEPT !.pc = "deriveKeys", !.key = resolvedSecretKey.value,
                                !.parts = parsed.value]
    [] member.pc = "deriveKeys" -> [member EXCEPT !.pc = "verifyHMAC"]
    [] member.pc = "verifyHMAC" -> [member EXCEPT !.pc = "performDecryption"]
    [] member.pc = "performDecryption" ->
         LET keys == deriveKeysWithArgon2(member.key, member.parts[1])
             decryptedBuffer ==
               performDecryption(member.parts[2], keys.encryptionKey, member.parts[3])
         IN IF decryptedBuffer.ok
            THEN [member EXCEPT !.pc = "done",
                                !.out = TextDecoderDecode(decryptedBuffer.value)]
            ELSE [member EXCEPT !.pc = "failed", !.error = decryptedBuffer.error]

\* a decrypt that runs the cipher first and verifies the tag afterwards
decryptStep_decryptsFirst(member) ==
  CASE member.pc = "getSecretKey" ->
         LET resolvedSecretKey == getSecretKeyFromEnvironment(masterKey)
             parsed == parseEncryptedData(member.input)
         IN IF ~resolvedSecretKey.ok
            THEN [member EXCEPT !.pc = "failed", !.error = resolvedSecretKey.error]
            ELSE IF ~parsed.ok
            THEN [member EXCEPT !.pc = "failed", !.error = parsed.error]
            ELSE [member EXCEPT !.pc = "deriveKeys", !.key = resolvedSecretKey.value,
                                !.parts = parsed.value]
    [] member.pc = "deriveKeys" -> [member EXCEPT !.pc = "performDecryption"]
    [] member.pc = "performDecryption" ->
         LET keys == deriveKeysWithArgon2(member.key, member.parts[1])
             decryptedBuffer ==
               performDecryption(member.parts[2], keys.encryptionKey, member.parts[3])
         IN IF decryptedBuffer.ok
            THEN [member EXCEPT !.pc = "verifyHMAC",
                                !.out = TextDecoderDecode(decryptedBuffer.value)]
            ELSE [member EXCEPT !.pc = "failed", !.error = decryptedBuffer.error]
    [] member.pc = "verifyHMAC" ->
         LET keys == deriveKeysWithArgon2(member.key, member.parts[1])
         IN IF verifyHMAC(member.parts[1], member.parts[2], member.parts[3],
                          member.parts[4], keys.hmacKey)
            THEN [member EXCEPT !.pc = "done"]
            ELSE [member EXCEPT !.pc = "failed", !.error = "IntegrityError",
                                !.out = <<>>]

\* a decrypt that derives the keys again when the tag does not verify
decryptStep_retriesVerify(member) ==
  CASE member.pc = "getSecretKey" ->
         LET resolvedSecretKey == getSecretKeyFromEnvironment(masterKey)
             parsed == parseEncryptedData(member.input)
         IN IF ~resolvedSecretKey.ok
            THEN [member EXCEPT !.pc = "failed", !.error = resolvedSecretKey.error]
            ELSE IF ~parsed.ok
            THEN [member EXCEPT !.pc = "failed", !.error = parsed.error]
            ELSE [member EXCEPT !.pc = "deriveKeys", !.key = resolvedSecretKey.value,
                                !.parts = parsed.value]
    [] member.pc = "deriveKeys" -> [member EXCEPT !.pc = "verifyHMAC"]
    [] member.pc = "verifyHMAC" ->
         LET keys == deriveKeysWithArgon2(member.key, member.parts[1])
         IN IF verifyHMAC(member.parts[1], member.parts[2], member.parts[3],
                          member.parts[4], keys.hmacKey)
            THEN [member EXCEPT !.pc = "performDecryption"]
            ELSE [member EXCEPT !.pc = "deriveKeys"]
    [] member.pc = "performDecryption" ->
         LET keys == deriveKeysWithArgon2(member.key, member.parts[1])
             decryptedBuffer ==
               performDecryption(member.parts[2], keys.encryptionKey, member.parts[3])
         IN IF decryptedBuffer.ok
            THEN [member EXCEPT !.pc = "done",
                                !.out = TextDecoderDecode(decryptedBuffer.value)]
            ELSE [member EXCEPT !.pc = "failed", !.error = decryptedBuffer.error]

\* member i of a decrypt batch after its pending await has settled
decryptStep(member) ==
  CASE member.pc = "getSecretKey" ->
         LET resolvedSecretKey == getSecretKeyFromEnvironment(masterKey)
             parsed == parseEncryptedData(member.input)
         IN IF ~resolvedSecretKey.ok
            THEN [member EXCEPT !.pc = "failed", !.error = resolvedSecretKey.error]
            ELSE IF ~parsed.ok
            THEN [member EXCEPT !.pc = "failed", !.error = parsed.error]
            ELSE [member EXCEPT !.pc = "deriveKeys", !.key = resolvedSecretKey.value,
                                !.parts = parsed.value]
    [] member.pc = "deriveKeys" -> [member EXCEPT !.pc = "verifyHMAC"]
    [] member.pc = "verifyHMAC" ->
         LET keys == deriveKeysWithArgon2(member.key, member.parts[1])
         IN IF verifyHMAC(member.parts[1], member.parts[2], member.parts[3],
                          member.parts[4], keys.hmacKey)
            THEN [member EXCEPT !.pc = "performDecryption"]
            ELSE [member EXCEPT !.pc = "failed", !.error = "IntegrityError"]
    [] member.pc = "performDecryption" ->
         LET keys == deriveKeysWithArgon2(member.key, member.parts[1])
             decryptedBuffer ==
               performDecryption(member.parts[2], keys.encryptionKey, member.parts[3])
         IN IF decryptedBuffer.ok
            THEN [member EXCEPT !.pc = "done",
                                !.out = TextDecoderDecode(decryptedBuffer.value)]
            ELSE [member EXCEPT !.pc = "failed", !.error = decryptedBuffer.error]

DecryptStep(i) ==
  /\ batchOp = "decrypt"
  /\ i \in 1..Len(members)
  /\ ~Finished(members[i])
  /\ LET after == [members EXCEPT ![i] = decryptStep(members[i])]
     IN /\ members' = after
        /\ batchResult' = promiseAll(batchResult, after)
  /\ UNCHANGED <<cacheVars, runs, baseVars, masterKey, fileVars, batchOp, produced>>

\* the environment is given another master key, or none
SetMasterKey(key) ==
  /\ batchOp = "none" \/ AllFinished
  /\ key # masterKey
  /\ masterKey' = key
  /\ UNCHANGED <<cacheVars, fileVars, cryptoVars, baseVars, runs>>

CryptoNext ==
  \/ \E values \in EncryptInputLists : EncryptMultiple(values)
  \/ \E i \in 1..Len(members) : EncryptStep(i)
  \/ \E i \in 1..Len(members) : EncryptStepFails(i)
  \/ \E encryptedValues \in DecryptInputLists : DecryptMultiple(encryptedValues)
  \/ \E i \in 1..Len(members) : DecryptStep(i)
  \/ \E key \in {NoKey} \cup MasterKeys : SetMasterKey(key)

CryptoSpec == CryptoInit /\ [][CryptoNext]_vars

Next ==
  \/ \E names \in NameLists : StartRun(names)
  \/ EncryptVariable
  \/ EncryptVariableFails
  \/ WriteFile
  \/ LogSummary
  \/ \E varNames \in VarNameLists : Validate(varNames)
  \/ ValidateReturns

Spec == Init /\ [][Next]_vars

(***************************************************************************)
(* The stored value of one variable, handed to the validator and to        *)
(* CryptoService.decrypt.  The value is PREFIX and up to MaxSegments       *)
(* segments, or misses the prefix.                                         *)
(***************************************************************************)
MaxSegments == 5

FormatSegments ==
  { <<>>, <<"a">>, <<"b", "=">>, <<"!">>, <<"a", "=", "b">> }

FormatValues ==
  { PREFIX \o Join(segments, <<SEPARATOR>>) :
      segments \in UNION { [1..n -> FormatSegments] : n \in 1..MaxSegments } }
    \cup { <<"a", ":", "b", ":", "a", ":", "b", "=">>,
           <<"e", "n", "c", "2", ":", "a", ":", "b", ":", "a", ":", "b", "=">>,
           <<"E", "N", "C", "2", "a", ":", "b", ":", "a", ":", "b", "=">> }

FormatInit ==
  /\ fileExists = TRUE
  /\ fileContent \in { <<"A", "=">> \o value : value \in FormatValues }
  /\ masterKey = <<"k">>
  /\ pc = "idle"
  /\ envVariables = <<>>
  /\ envFileLines = <<>>
  /\ variablesToEncrypt = <<>>
  /\ cursor = 1
  /\ updatedLines = <<>>
  /\ encryptedCount = 0
  /\ fileAtStart = fileContent
  /\ writeCount = 0
  /\ encryptCalls = <<>>
  /\ notFoundLogged = <<>>
  /\ summaryCount = 0
  /\ failure = "none"
  /\ isRerun = FALSE
  /\ validation = NoValidation
  /\ batchOp = "none"
  /\ members = <<>>
  /\ batchResult = NoBatch
  /\ produced = <<>>
  /\ NoBaseFile
  /\ runs = NoRuns
  /\ NoCaches

\* the value the stage file stores for A
storedValueOfA ==
  Get(extractEnvironmentVariables(readEnvironmentFileAsLines(fileContent)),
      <<"A">>)

FormatNext ==
  \/ Validate(<< <<"A">> >>)
  \/ ValidateReturns
  \/ batchOp = "none" /\ DecryptMultiple(<<storedValueOfA>>)
  \/ \E i \in 1..Len(members) : DecryptStep(i)

FormatSpec == FormatInit /\ [][FormatNext]_vars

(***************************************************************************)
(* The master key in the base environment file:                            *)
(* CryptoOrchestrator.generateSecretKey and                                *)
(* BaseEnvFileManager.getSecretKeyValue, one caller at a time.             *)
(***************************************************************************)
\* the name getCurrentEnvironmentSecretKeyVariable returns for the stage dev
SecretKeyVariable ==
  <<"S", "E", "C", "R", "E", "T", "_", "K", "E", "Y", "_", "D", "E", "V">>

MaxBaseLines == 2

\* the lines a base environment file is made of
BaseLineCatalogue ==
  { <<"#", SP, "c">>,
    <<>>,
    SecretKeyVariable \o <<"=", "o">>,
    <<SP>> \o SecretKeyVariable \o <<"=", "o">>,
    SecretKeyVariable \o <<"X", "=", "o">>,
    <<"S", "E", "C", "R", "E", "T", "_", "K", "E", "Y", "_", "U", "A", "T",
      "=", "u">> }

BaseLineEnds == { <<LF>>, <<CR, LF>> }

BaseContents ==
  { Join(lines, lineEnd) \o last :
      lines \in UNION { [1..n -> BaseLineCatalogue] : n \in 0..MaxBaseLines },
      lineEnd \in BaseLineEnds,
      last \in {<<>>, <<LF>>} }

\* what SecureKeyGenerator.generateBase64SecretKey can return
GeneratedKeys == { <<"n", "=">>, <<"p", "/", "+">> }

KeyInit ==
  /\ fileExists = FALSE
  /\ fileContent = <<>>
  /\ masterKey = NoKey
  /\ pc = "idle"
  /\ envVariables = <<>>
  /\ envFileLines = <<>>
  /\ variablesToEncrypt = <<>>
  /\ cursor = 1
  /\ updatedLines = <<>>
  /\ encryptedCount = 0
  /\ fileAtStart = <<>>
  /\ writeCount = 0
  /\ encryptCalls = <<>>
  /\ notFoundLogged = <<>>
  /\ summaryCount = 0
  /\ failure = "none"
  /\ isRerun = FALSE
  /\ validation = NoValidation
  /\ batchOp = "none"
  /\ members = <<>>
  /\ batchResult = NoBatch
  /\ produced = <<>>
  /\ baseFileExists \in BOOLEAN
  /\ baseFileContent \in (IF baseFileExists THEN BaseContents ELSE {<<>>})
  /\ NoKeyOperation
  /\ runs = NoRuns
  /\ NoCaches

\* BaseEnvFileManager.storeBaseEnvironmentKey(keyName, value)
storeBaseEnvironmentKey(keyName, value) ==
  LET fileContent_ == getOrCreateBaseEnvFileContent(baseFileExists, baseFileContent)
  IN /\ baseContentBefore' = fileContent_
     /\ baseFileContent' = updateOrAddEnvironmentKey(fileContent_, keyName, value)
     /\ baseFileExists' = TRUE

\* CryptoOrchestrator.generateSecretKey()
GenerateSecretKey ==
  /\ \E generated \in GeneratedKeys :
       /\ generatedSecretKey' = generated
       /\ storeBaseEnvironmentKey(SecretKeyVariable, generated)
  /\ secretKeyValue' = NoLookup
  /\ UNCHANGED <<cacheVars, runs, masterKey, fileVars, cryptoVars>>

\* BaseEnvFileManager.getSecretKeyValue(keyName)
GetSecretKeyValue ==
  /\ LET fileContent_ == getOrCreateBaseEnvFileContent(baseFileExists, baseFileContent)
     IN /\ secretKeyValue' =
             [called |-> TRUE,
              value |-> extractKeyValue(fileContent_, SecretKeyVariable)]
        /\ baseFileContent' = fileContent_
        /\ baseFileExists' = TRUE
  /\ UNCHANGED <<cacheVars, runs, masterKey, fileVars, cryptoVars, generatedSecretKey,
                 baseContentBefore>>

KeyNext ==
  \/ GenerateSecretKey
  \/ GetSecretKeyValue

KeySpec == KeyInit /\ [][KeyNext]_vars

(***************************************************************************)
(* Key regeneration: generateSecretKey writes a new key to the base        *)
(* environment file, the environment is loaded from that file, and values  *)
(* are encrypted and decrypted under the key the environment holds.        *)
(***************************************************************************)
\* base environment files with at most one line for the secret key
RotateContents ==
  { <<>>,
    <<"#", SP, "c", LF>>,
    SecretKeyVariable \o <<"=", "o", LF>>,
    <<"#", SP, "c", LF>> \o SecretKeyVariable \o <<"=", "o">> }

RotateInit ==
  /\ fileExists = FALSE
  /\ fileContent = <<>>
  /\ masterKey = NoKey
  /\ pc = "idle"
  /\ envVariables = <<>>
  /\ envFileLines = <<>>
  /\ variablesToEncrypt = <<>>
  /\ cursor = 1
  /\ updatedLines = <<>>
  /\ encryptedCount = 0
  /\ fileAtStart = <<>>
  /\ writeCount = 0
  /\ encryptCalls = <<>>
  /\ notFoundLogged = <<>>
  /\ summaryCount = 0
  /\ failure = "none"
  /\ isRerun = FALSE
  /\ validation = NoValidation
  /\ batchOp = "none"
  /\ members = <<>>
  /\ batchResult = NoBatch
  /\ produced = <<>>
  /\ baseFileExists \in BOOLEAN
  /\ baseFileContent \in (IF baseFileExists THEN RotateContents ELSE {<<>>})
  /\ NoKeyOperation
  /\ runs = NoRuns
  /\ NoCaches

\* dotenv.config({ path: BASE_ENV_FILE, override: true }): the environment
\* takes the value the base file gives the secret-key variable
LoadEnvironment ==
  /\ AllFinished
  /\ baseFileExists
  /\ LET value == extractKeyValue(baseFileContent, SecretKeyVariable)
     IN /\ value # Undefined
        /\ value # masterKey
        /\ masterKey' = value
  /\ UNCHANGED <<cacheVars, fileVars, cryptoVars, baseVars, runs>>

RotateNext ==
  \/ AllFinished /\ GenerateSecretKey
  \/ LoadEnvironment
  \/ EncryptMultiple(<< <<"x">> >>)
  \/ \E i \in 1..Len(members) : EncryptStep(i)
  \/ \E i \in 1..Len(members) : EncryptStepFails(i)
  \/ produced # <<>> /\ DecryptMultiple(<< produced[1].envelope >>)
  \/ \E i \in 1..Len(members) : DecryptStep(i)

RotateSpec == RotateInit /\ [][RotateNext]_vars

(***************************************************************************)
(* Two callers of encryptEnvironmentVariables on the same stage file.      *)
(* Each call runs from one await to the next in a step: the read, every    *)
(* CryptoService.encrypt, the write, the summary.  The file is the only    *)
(* state the calls share.                                                  *)
(***************************************************************************)
RaceContents ==
  { Join(<< <<"A", "=", "x">>, <<"B", "=", "x">> >>, <<LF>>),
    Join(<< <<"#", "c">>, <<"A", "=", "x">> >>, <<LF>>),
    Join(<< <<"A", "=", "x">>, <<"A", SP, "=", SP, "y">> >>, <<LF>>),
    <<"B", "=">> }

RaceNameLists == { <<>>, << <<"A">> >>, << <<"B">> >> }

RaceInit ==
  /\ fileExists = TRUE
  /\ fileContent \in RaceContents
  /\ masterKey = <<"k">>
  /\ pc = "idle"
  /\ envVariables = <<>>
  /\ envFileLines = <<>>
  /\ variablesToEncrypt = <<>>
  /\ cursor = 1
  /\ updatedLines = <<>>
  /\ encryptedCount = 0
  /\ fileAtStart = fileContent
  /\ writeCount = 0
  /\ encryptCalls = <<>>
  /\ notFoundLogged = <<>>
  /\ summaryCount = 0
  /\ failure = "none"
  /\ isRerun = FALSE
  /\ validation = NoValidation
  /\ batchOp = "none"
  /\ members = <<>>
  /\ batchResult = NoBatch
  /\ produced = <<>>
  /\ NoBaseFile
  /\ runs = NoRuns
  /\ NoCaches

RunResting(run) == run.pc \in {"idle", "done"}

\* a read that is served from the content the file had at first
RaceStart_readsSnapshot(r, names) ==
  /\ runs[r].pc = "idle"
  /\ LET lines == readEnvironmentFileAsLines(fileAtStart)
         allEnvVariables == extractEnvironmentVariables(lines)
         resolved == resolveVariablesToEncrypt(allEnvVariables, names)
         targets == IF allEnvVariables = <<>> THEN <<>> ELSE resolved.variables
     IN runs' = [runs EXCEPT ![r] =
                   [@ EXCEPT !.pc = IF targets = <<>> THEN "done" ELSE "encrypting",
                             !.envVariables = names,
                             !.envFileLines = lines,
                             !.updatedLines = lines,
                             !.variablesToEncrypt = targets,
                             !.startedAlone =
                                \A o \in RunIds \ {r} : RunResting(runs[o])]]
  /\ UNCHANGED <<cacheVars, masterKey, fileVars, cryptoVars, baseVars>>

\* caller r calls: the file is read, the variables extracted and resolved
RaceStart(r, names) ==
  /\ runs[r].pc = "idle"
  /\ LET lines == readEnvironmentFileAsLines(fileContent)
         allEnvVariables == extractEnvironmentVariables(lines)
         resolved == resolveVariablesToEncrypt(allEnvVariables, names)
         targets == IF allEnvVariables = <<>> THEN <<>> ELSE resolved.variables
     IN runs' = [runs EXCEPT ![r] =
                   [@ EXCEPT !.pc = IF targets = <<>> THEN "done" ELSE "encrypting",
                             !.envVariables = names,
                             !.envFileLines = lines,
                             !.updatedLines = lines,
                             !.variablesToEncrypt = targets,
                             !.startedAlone =
                                \A o \in RunIds \ {r} : RunResting(runs[o])]]
  /\ UNCHANGED <<cacheVars, masterKey, fileVars, cryptoVars, baseVars>>

\* one pass of the loop of caller r
RaceEncrypt(r) ==
  /\ runs[r].pc = "encrypting"
  /\ \E random \in Randomness :
       LET run == runs[r]
           key == run.variablesToEncrypt[run.cursor][1]
           value == Trim(run.variablesToEncrypt[run.cursor][2])
           encryptedValue == encrypt(value, masterKey, random[1], random[2])
       IN /\ encryptedValue.ok
          /\ runs' = [runs EXCEPT ![r] =
                        [@ EXCEPT !.updatedLines =
                                     updateEnvironmentFileLines(
                                       run.updatedLines, key, encryptedValue.value),
                                  !.encryptedCount = run.encryptedCount + 1,
                                  !.cursor = run.cursor + 1,
                                  !.pc = IF run.cursor < Len(run.variablesToEncrypt)
                                         THEN "encrypting" ELSE "write"]]
  /\ UNCHANGED <<cacheVars, masterKey, fileVars, cryptoVars, baseVars>>

\* caller r writes the lines it built
RaceWrite(r) ==
  /\ runs[r].pc = "write"
  /\ fileContent' = writeEnvironmentFileLines(runs[r].updatedLines)
  /\ runs' = [runs EXCEPT ![r] =
                [@ EXCEPT !.pc = "summary",
                          !.wroteAt =
                             1 + Cardinality({ o \in RunIds : runs[o].wroteAt > 0 })]]
  /\ UNCHANGED <<cacheVars, masterKey, fileExists, runVars, validation, cryptoVars, baseVars>>

\* caller r logs its summary and returns
RaceSummary(r) ==
  /\ runs[r].pc = "summary"
  /\ runs' = [runs EXCEPT ![r] = [@ EXCEPT !.pc = "done"]]
  /\ UNCHANGED <<cacheVars, masterKey, fileVars, cryptoVars, baseVars>>

RaceNext ==
  \/ \E r \in RunIds : \E names \in RaceNameLists : RaceStart(r, names)
  \/ \E r \in RunIds : RaceEncrypt(r)
  \/ \E r \in RunIds : RaceWrite(r)
  \/ \E r \in RunIds : RaceSummary(r)

RaceSpec == RaceInit /\ [][RaceNext]_vars

(***************************************************************************)
(* One caller that awaits every call it makes: a run, a status check, an   *)
(* encrypt batch or a decrypt batch starts when the call before it has     *)
(* ended.  Every await of a call in progress settles in the end: the file  *)
(* and crypto collaborators return, with a value or with an error.         *)
(***************************************************************************)
CallerContents ==
  { Join(<< <<"A", "=", "x">>, <<"B", "=", "x">> >>, <<LF>>),
    <<"B", "=">> }

CallerNameLists == { <<>>, << <<"Z">> >> }

CallerEncryptInputLists == { << <<"x">> >>, << <<"a", "=", "b">>, <<"x">> >> }

\* the input lists of the caller's decrypt batches
CallerDecryptInputLists ==
  { << <<"E", "N", "C", "2", ":", "o">> >> }
    \cup (IF produced = <<>> THEN {}
          ELSE { << produced[1].envelope >>,
                 << withSegment(produced[1].envelope, 4, <<"z">>),
                    produced[1].envelope >> })

CallerInit ==
  /\ fileExists \in BOOLEAN
  /\ fileContent \in (IF fileExists THEN CallerContents ELSE {<<>>})
  /\ masterKey \in {NoKey, <<"k">>}
  /\ pc = "idle"
  /\ envVariables = <<>>
  /\ envFileLines = <<>>
  /\ variablesToEncrypt = <<>>
  /\ cursor = 1
  /\ updatedLines = <<>>
  /\ encryptedCount = 0
  /\ fileAtStart = fileContent
  /\ writeCount = 0
  /\ encryptCalls = <<>>
  /\ notFoundLogged = <<>>
  /\ summaryCount = 0
  /\ failure = "none"
  /\ isRerun = FALSE
  /\ validation = NoValidation
  /\ batchOp = "none"
  /\ members = <<>>
  /\ batchResult = NoBatch
  /\ produced = <<>>
  /\ NoBaseFile
  /\ runs = NoRuns
  /\ NoCaches

\* no call of the caller is in progress
CallerIdle == Resting /\ AllFinished

CallerNext ==
  \/ CallerIdle /\ \E names \in CallerNameLists : StartRun(names)
  \/ EncryptVariable
  \/ EncryptVariableFails
  \/ WriteFile
  \/ LogSummary
  \/ CallerIdle /\ Validate(<< <<"A">>, <<"B">> >>)
  \/ ValidateReturns
  \/ CallerIdle /\ \E values \in CallerEncryptInputLists : EncryptMultiple(values)
  \/ \E i \in 1..Len(members) : EncryptStep(i)
  \/ \E i \in 1..Len(members) : EncryptStepFails(i)
  \/ CallerIdle /\ \E encryptedValues \in CallerDecryptInputLists :
                     DecryptMultiple(encryptedValues)
  \/ \E i \in 1..Len(members) : DecryptStep(i)

\* an await of a call in progress settles
Settle ==
  \/ EncryptVariable
  \/ EncryptVariableFails
  \/ WriteFile
  \/ LogSummary
  \/ ValidateReturns
  \/ \E i \in 1..Len(members) : EncryptStep(i)
  \/ \E i \in 1..Len(members) : EncryptStepFails(i)
  \/ \E i \in 1..Len(members) : DecryptStep(i)

\* a call of the caller is in progress: it waits for one of its awaits
Pending == ~Resting \/ ~AllFinished

\* weak fairness of Settle, with ENABLED <<Settle>>_vars written as the state
\* predicate it is equal to: while a call is in progress, one of its pending
\* awaits settles
CallerFairness == []<>(~Pending) \/ []<><<Settle>>_vars

CallerSpec == CallerInit /\ [][CallerNext]_vars /\ CallerFairness

(***************************************************************************)
(* The status views of EncryptionValidator on a stage file nobody changes: *)
(* validateEncryption, areAllEncrypted and getUnencryptedVariables are     *)
(* called one after another with any of the name lists.                    *)
(***************************************************************************)
StatusInit ==
  /\ fileExists \in BOOLEAN
  /\ fileContent \in (IF fileExists THEN InitialContents ELSE {<<>>})
  /\ masterKey = NoKey
  /\ pc = "idle"
  /\ envVariables = <<>>
  /\ envFileLines = <<>>
  /\ variablesToEncrypt = <<>>
  /\ cursor = 1
  /\ updatedLines = <<>>
  /\ encryptedCount = 0
  /\ fileAtStart = fileContent
  /\ writeCount = 0
  /\ encryptCalls = <<>>
  /\ notFoundLogged = <<>>
  /\ summaryCount = 0
  /\ failure = "none"
  /\ isRerun = FALSE
  /\ validation = NoValidation
  /\ batchOp = "none"
  /\ members = <<>>
  /\ batchResult = NoBatch
  /\ produced = <<>>
  /\ NoBaseFile
  /\ runs = NoRuns
  /\ NoCaches

\* what a view returns, or the error of the read it starts with
viewOf(op, varNames, returned) ==
  IF fileExists
  THEN [called |-> TRUE, op |-> op, names |-> varNames, ok |-> TRUE,
        result |-> returned, from |-> pc]
  ELSE [called |-> TRUE, op |-> op, names |-> varNames, ok |-> FALSE,
        result |-> <<>>, from |-> pc]

\* await areAllEncrypted(varNames)
AreAllEncrypted(varNames) ==
  /\ Resting
  /\ pc' = "validated"
  /\ validation' = viewOf("areAllEncrypted", varNames,
                           areAllEncrypted(fileContent, varNames))
  /\ UNCHANGED <<cacheVars, fileExists, fileContent, masterKey, envVariables, envFileLines,
                 variablesToEncrypt, cursor, updatedLines, encryptedCount,
                 fileAtStart, writeCount, encryptCalls, notFoundLogged,
                 summaryCount, failure, isRerun, cryptoVars, baseVars, runs>>

\* await getUnencryptedVariables(varNames)
GetUnencryptedVariables(varNames) ==
  /\ Resting
  /\ pc' = "validated"
  /\ validation' = viewOf("getUnencryptedVariables", varNames,
                           getUnencryptedVariables(fileContent, varNames))
  /\ UNCHANGED <<cacheVars, fileExists, fileContent, masterKey, envVariables, envFileLines,
                 variablesToEncrypt, cursor, updatedLines, encryptedCount,
                 fileAtStart, writeCount, encryptCalls, notFoundLogged,
                 summaryCount, failure, isRerun, cryptoVars, baseVars, runs>>

StatusNext ==
  \/ \E varNames \in VarNameLists : Validate(varNames)
  \/ \E varNames \in VarNameLists : AreAllEncrypted(varNames)
  \/ \E varNames \in VarNameLists : GetUnencryptedVariables(varNames)
  \/ ValidateReturns

StatusSpec == StatusInit /\ [][StatusNext]_vars

(***************************************************************************)
(* errorPatternCacheManager: the dedup caches of the error handling, with  *)
(* ErrorAnalyzer.createErrorDetails and ErrorHandler.captureError over     *)
(* them.  A Set or a Map of JavaScript iterates in insertion order: a      *)
(* cache is the sequence of its keys, oldest first (the result a Map entry *)
(* holds plays no part in its size).  A key is a number that stands for    *)
(* the string generateLoggedErrorCacheKey or generateMatchCacheKey built.  *)
(***************************************************************************)
MAX_MATCH_CACHE_SIZE == 5000

MAX_LOGGED_ERRORS_CACHE_SIZE == 1000

\* the calls made on the caches in a behaviour
MaxCacheCalls == 4

\* Set.has, Map.has
has(cache, key) == SelectSeq(cache, LAMBDA held : held = key) # <<>>

\* Set.add, Map.set: a key the cache holds keeps its place
add(cache, key) == IF has(cache, key) THEN cache ELSE Append(cache, key)

\* Array.from(keys).slice(0, count), each of them deleted
deleteOldest(cache, count) ==
  IF count >= Len(cache) THEN <<>> ELSE SubSeq(cache, count + 1, Len(cache))

\* Math.floor(MAX_MATCH_CACHE_SIZE * 0.2)
matchEntriesToRemove == (MAX_MATCH_CACHE_SIZE * 2) \div 10

\* Math.floor(MAX_LOGGED_ERRORS_CACHE_SIZE * 0.3)
loggedKeysToRemove == (MAX_LOGGED_ERRORS_CACHE_SIZE * 3) \div 10

cleanupMatchCache(cache) ==
  IF Len(cache) >= MAX_MATCH_CACHE_SIZE
  THEN deleteOldest(cache, matchEntriesToRemove)
  ELSE cache

\* a cleanup that lets the cache grow past its limit before it evicts
cleanupLoggedErrorsCache_pastLimit(cache) ==
  IF Len(cache) > MAX_LOGGED_ERRORS_CACHE_SIZE
  THEN deleteOldest(cache, loggedKeysToRemove)
  ELSE cache

cleanupLoggedErrorsCache(cache) ==
  IF Len(cache) >= MAX_LOGGED_ERRORS_CACHE_SIZE
  THEN deleteOldest(cache, loggedKeysToRemove)
  ELSE cache

\* ErrorAnalyzer.cacheMatchResult
cacheMatchResult(cache, cacheKey) == add(cleanupMatchCache(cache), cacheKey)

\* ErrorAnalyzer.analyzeErrorMessage, as the cache it leaves: a message
\* that no pattern matches is not cached
analyzeErrorMessage(cache, error) ==
  IF has(cache, error.matchKey) THEN cache
  ELSE IF error.matched THEN cacheMatchResult(cache, error.matchKey)
  ELSE cache

\* ErrorAnalyzer.categorizeError, as the cache it leaves: only an error no
\* earlier rule categorizes (its type, name, code, HTTP status) is analysed
\* by its message
categorizeError(cache, error) ==
  IF error.byMessage THEN analyzeErrorMessage(cache, error) ELSE cache

\* the part of ErrorHandler.captureError on LOGGED_ERRORS_CACHE
logOnce(cache, cacheKey) ==
  IF has(cache, cacheKey) THEN cache
  ELSE add(cleanupLoggedErrorsCache(cache), cacheKey)

\* a cache that holds count keys, after count calls with distinct keys
Prefilled(count) == [i \in 1..count |-> i]

\* the keys a call may come with: the oldest key ever added, which the cache
\* holds until it is evicted, and a key no earlier call came with
KeyChoices(limit) == {1, limit + cacheCalls}

\* the errors a call may come with
Errors ==
  [byMessage : BOOLEAN, matched : BOOLEAN,
   matchKey : KeyChoices(MAX_MATCH_CACHE_SIZE),
   loggedKey : KeyChoices(MAX_LOGGED_ERRORS_CACHE_SIZE)]

callOf(op) ==
  [op |-> op, loggedBefore |-> Len(LOGGED_ERRORS_CACHE),
   matchBefore |-> Len(MATCH_RESULT_CACHE)]

CacheInit ==
  /\ fileExists = FALSE
  /\ fileContent = <<>>
  /\ masterKey = NoKey
  /\ pc = "idle"
  /\ envVariables = <<>>
  /\ envFileLines = <<>>
  /\ variablesToEncrypt = <<>>
  /\ cursor = 1
  /\ updatedLines = <<>>
  /\ encryptedCount = 0
  /\ fileAtStart = fileContent
  /\ writeCount = 0
  /\ encryptCalls = <<>>
  /\ notFoundLogged = <<>>
  /\ summaryCount = 0
  /\ failure = "none"
  /\ isRerun = FALSE
  /\ validation = NoValidation
  /\ batchOp = "none"
  /\ members = <<>>
  /\ batchResult = NoBatch
  /\ produced = <<>>
  /\ NoBaseFile
  /\ runs = NoRuns
  /\ LOGGED_ERRORS_CACHE \in
       {Prefilled(0), Prefilled(MAX_LOGGED_ERRORS_CACHE_SIZE - 1)}
  /\ MATCH_RESULT_CACHE \in {Prefilled(0), Prefilled(MAX_MATCH_CACHE_SIZE - 1)}
  /\ cacheCalls = 0
  /\ lastCall = NoCall

\* ErrorAnalyzer.createErrorDetails
CreateErrorDetails ==
  /\ cacheCalls < MaxCacheCalls
  /\ \E error \in Errors :
       /\ MATCH_RESULT_CACHE' = categorizeError(MATCH_RESULT_CACHE, error)
  /\ lastCall' = callOf("createErrorDetails")
  /\ cacheCalls' = cacheCalls + 1
  /\ UNCHANGED <<LOGGED_ERRORS_CACHE, masterKey, fileVars, cryptoVars, baseVars, runs>>

\* ErrorHandler.captureError
CaptureError ==
  /\ cacheCalls < MaxCacheCalls
  /\ \E error \in Errors :
       /\ MATCH_RESULT_CACHE' = categorizeError(MATCH_RESULT_CACHE, error)
       /\ LOGGED_ERRORS_CACHE' = logOnce(LOGGED_ERRORS_CACHE, error.loggedKey)
  /\ lastCall' = callOf("captureError")
  /\ cacheCalls' = cacheCalls + 1
  /\ UNCHANGED <<masterKey, fileVars, cryptoVars, baseVars, runs>>

\* ErrorHandler.resetCache
ResetCache ==
  /\ cacheCalls < MaxCacheCalls
  /\ LOGGED_ERRORS_CACHE' = <<>>
  /\ lastCall' = callOf("resetCache")
  /\ cacheCalls' = cacheCalls + 1
  /\ UNCHANGED <<MATCH_RESULT_CACHE, masterKey, fileVars, cryptoVars, baseVars, runs>>

\* resetAllCaches
ResetAllCaches ==
  /\ cacheCalls < MaxCacheCalls
  /\ LOGGED_ERRORS_CACHE' = <<>>
  /\ MATCH_RESULT_CACHE' = <<>>
  /\ lastCall' = callOf("resetAllCaches")
  /\ cacheCalls' = cacheCalls + 1
  /\ UNCHANGED <<masterKey, fileVars, cryptoVars, baseVars, runs>>

CacheNext ==
  \/ CreateErrorDetails
  \/ CaptureError
  \/ ResetCache
  \/ ResetAllCaches

CacheSpec == CacheInit /\ [][CacheNext]_vars

(***************************************************************************)
(* Properties of a run of encryptEnvironmentVariables                      *)
(***************************************************************************)
\* the variables the run parsed from the file it read
allEnvVariablesOfRun == extractEnvironmentVariables(envFileLines)

EncryptFailed == failure \in {"MissingSecretKeyError", "KeyDerivationError"}

EncryptedKeys == { encryptCalls[i][1] : i \in 1..encryptedCount }

\* C1: a run in which CryptoService.encrypt failed for some target, whatever
\* its position, never calls writeEnvironmentFileLines and leaves the content
\* of the stage file as it was when the run started.
C1_AllOrNothing ==
  EncryptFailed => (writeCount = 0 /\ fileContent = fileAtStart)

\* the encrypt call failed after an earlier target was encrypted
C1_Witness ==
  /\ EncryptFailed
  /\ pc = "failed"
  /\ encryptedCount >= 1
  /\ updatedLines # envFileLines

\* the run returned without an error
RunSucceeded == pc = "done" /\ failure = "none"

\* the lines of the stage file as it stands
linesOfFile == readEnvironmentFileAsLines(fileContent)

\* the positions in lines of the assignments to key
linesOfKey(lines, key) ==
  { i \in 1..Len(lines) :
      LET parsed == parseEnvironmentLine(lines[i])
      IN parsed # NoVariable /\ parsed[1] = key }

\* the variables the run's names resolve to, before any is filtered out
candidatesOfRun ==
  IF allEnvVariablesOfRun = <<>> THEN <<>>
  ELSE IF envVariables = <<>> THEN allEnvVariablesOfRun
  ELSE resolveNames(allEnvVariablesOfRun, envVariables, <<>>, <<>>).candidates

\* C4: a run that repeats the arguments of the successful run before it, and
\* a run on a file in which every targeted value is already an envelope,
\* call CryptoService.encrypt for nothing, write nothing and leave the file
\* byte-identical.
C4_Idempotent ==
  LET targetsAreEnvelopes ==
        /\ fileExists
        /\ pc # "idle"
        /\ \A i \in 1..Len(candidatesOfRun) :
             isEnvelope(Trim(candidatesOfRun[i][2]))
  IN (isRerun \/ targetsAreEnvelopes)
       => /\ encryptCalls = <<>>
          /\ writeCount = 0
          /\ fileContent = fileAtStart

\* C5: once a run has written the file, the file is the written lines joined
\* by line feeds, and every line of the original file that is a comment, a
\* blank line or an assignment of a variable the run did not encrypt stands
\* at its position among them with the content it had; the lines that differ
\* are assignments of encrypted variables.
C5_Frame ==
  writeCount > 0
    => LET original == readEnvironmentFileAsLines(fileAtStart)
           written == updatedLines
       IN /\ fileContent = Join(written, <<LF>>)
          /\ Len(written) >= Len(original)
          /\ \A i \in 1..Len(original) :
               written[i] # original[i]
                 => LET parsed == parseEnvironmentLine(original[i])
                    IN parsed # NoVariable /\ parsed[1] \in EncryptedKeys

\* a written file that kept a comment line and changed another line
C5_Witness ==
  /\ writeCount > 0
  /\ pc = "done"
  /\ LET original == readEnvironmentFileAsLines(fileAtStart)
         written == updatedLines
     IN /\ fileContent = Join(written, <<LF>>)
        /\ \E i \in 1..Len(original) :
             /\ StartsWith(Trim(original[i]), <<"#">>)
             /\ original[i] # Trim(original[i])
             /\ written[i] = original[i]
        /\ \E i \in 1..Len(original) : written[i] # original[i]

\* C6: after a successful run, every targeted variable (by key or by current
\* value) whose stored value was non-empty plaintext has an envelope on each
\* of its lines, and validateEncryption maps its name to true.
C6_EncryptThenValidate ==
  RunSucceeded
    => \A c \in 1..Len(candidatesOfRun) :
         LET key == candidatesOfRun[c][1]
             value == Trim(candidatesOfRun[c][2])
         IN (value # <<>> /\ ~isEnvelope(value))
              => /\ \A i \in linesOfKey(linesOfFile, key) :
                      isEnvelope(Trim(parseEnvironmentLine(linesOfFile[i])[2]))
                 /\ validateEncryption(fileContent, <<key>>) = <<<<key, TRUE>>>>

\* the names of a validateEncryption call, as a set
requestedNames == { validation.names[i] : i \in 1..Len(validation.names) }

\* C8: the mapping validateEncryption returns for a stage file holds exactly
\* one boolean per requested name, true iff the file assigns the name a value
\* that is a structurally valid envelope; an absent variable, an empty value
\* and a malformed envelope give false, and no error is raised.
C8_StatusCheck ==
  (validation.called /\ fileExists)
    => LET stored == extractEnvironmentVariables(linesOfFile)
       IN /\ validation.ok
          /\ Len(validation.result) = Cardinality(requestedNames)
          /\ \A name \in requestedNames :
               /\ HasKey(validation.result, name)
               /\ Get(validation.result, name)
                    = (/\ HasKey(stored, name)
                       /\ isEnvelope(Trim(Get(stored, name))))

\* a call that found an envelope, a malformed envelope and an absent name
C8_Witness ==
  /\ validation.called
  /\ fileExists
  /\ LET stored == extractEnvironmentVariables(linesOfFile)
     IN /\ \E name \in requestedNames : Get(validation.result, name) = TRUE
        /\ \E name \in requestedNames :
             /\ HasKey(stored, name)
             /\ StartsWith(Get(stored, name), PREFIX)
             /\ Get(validation.result, name) = FALSE
        /\ \E name \in requestedNames :
             /\ ~HasKey(stored, name)
             /\ Get(validation.result, name) = FALSE

\* the variables of the file the run read whose value is empty or whitespace
emptyVariablesOfRun ==
  { allEnvVariablesOfRun[i][1] :
      i \in { j \in 1..Len(allEnvVariablesOfRun) :
                Trim(allEnvVariablesOfRun[j][2]) = <<>> } }

\* C9: a variable whose value is empty or only whitespace is never passed to
\* CryptoService.encrypt, and none of its lines is rewritten, in the lines
\* the run builds and in the file it writes, whether the run targets every
\* variable or names the variable.
C9_EmptyNeverEncrypted ==
  /\ \A c \in 1..Len(encryptCalls) :
       /\ encryptCalls[c][1] \notin emptyVariablesOfRun
       /\ encryptCalls[c][2] # <<>>
  /\ \A key \in emptyVariablesOfRun :
       \A i \in linesOfKey(envFileLines, key) :
         /\ updatedLines[i] = envFileLines[i]
         /\ fileContent \in {fileAtStart, Join(updatedLines, <<LF>>)}

\* a run that named a variable with an empty value, and wrote the file for
\* another variable
C9_Witness ==
  /\ RunSucceeded
  /\ writeCount > 0
  /\ \E n \in 1..Len(envVariables) : envVariables[n] \in emptyVariablesOfRun
  /\ \E key \in emptyVariablesOfRun : linesOfKey(envFileLines, key) # {}

\* name is neither the key nor the current value of a variable of the file
AbsentFromFile(name) ==
  /\ ~HasKey(allEnvVariablesOfRun, name)
  /\ \A i \in 1..Len(allEnvVariablesOfRun) : allEnvVariablesOfRun[i][2] # name

\* C10: a supplied name that is not the key of any variable of the file (nor,
\* by the rule that resolves names, the current value of one) is reported as
\* unresolved when the run returns, and a run whose names are all such calls
\* CryptoService.encrypt for nothing, writes nothing and leaves the file as
\* it was.
C10_AbsentName ==
  (RunSucceeded /\ envVariables # <<>>)
    => /\ \A n \in 1..Len(envVariables) :
            AbsentFromFile(envVariables[n])
              => \E l \in 1..Len(notFoundLogged) :
                    notFoundLogged[l] = envVariables[n]
       /\ (\A n \in 1..Len(envVariables) : AbsentFromFile(envVariables[n]))
            => /\ encryptCalls = <<>>
               /\ writeCount = 0
               /\ fileContent = fileAtStart

(***************************************************************************)
(* Properties of the envelope format                                       *)
(***************************************************************************)
Base64Alphabet == Upper \cup Lower \cup Digit \cup {"+", "/"}

\* the positions of the separators in s, and the segment between two of them
SeparatorsIn(s) == { i \in 1..Len(s) : s[i] = SEPARATOR }

\* one or more characters of the alphabet, then nothing but padding
IsBase64Segment(s, from, to) ==
  /\ from <= to
  /\ s[from] \in Base64Alphabet
  /\ \A i \in from..to : s[i] \in Base64Alphabet \cup {"="}
  /\ \A i \in from..(to - 1) : s[i] = "=" => s[i + 1] = "="

\* the structure rule: the prefix, then exactly 4 segments between 3
\* separators, each segment non-empty and base64
EnvelopeRule(value) ==
  /\ Len(value) >= Len(PREFIX)
  /\ \A i \in 1..Len(PREFIX) : value[i] = PREFIX[i]
  /\ LET rest == SubSeq(value, Len(PREFIX) + 1, Len(value))
         cuts == SeparatorsIn(rest) \cup {0, Len(rest) + 1}
     IN /\ Cardinality(SeparatorsIn(rest)) = 3
        /\ \A a \in cuts : \A b \in cuts :
             (a < b /\ ~(\E c \in cuts : a < c /\ c < b))
               => IsBase64Segment(rest, a + 1, b - 1)

\* C11: the validator maps a stored value to true, and decrypt gets past the
\* decoding of it, iff the value follows the structure rule; a decrypt call
\* handed any other string fails with FormatError before any key is derived.
C11_StructureRule ==
  /\ (validation.called /\ validation.ok /\ validation.names = << <<"A">> >>
        /\ HasKey(extractEnvironmentVariables(linesOfFile), <<"A">>))
       => Get(validation.result, <<"A">>) = EnvelopeRule(storedValueOfA)
  /\ batchOp = "decrypt"
       => \A i \in 1..Len(members) :
            IF EnvelopeRule(members[i].input)
            THEN members[i].error # "FormatError"
            ELSE /\ members[i].pc \in {"getSecretKey", "failed"}
                 /\ Finished(members[i]) => members[i].error = "FormatError"

\* a value with the prefix and 4 segments, the last one not base64, was
\* refused by the validator and by decrypt
C11_Witness ==
  /\ validation.called
  /\ Get(validation.result, <<"A">>) = FALSE
  /\ storedValueOfA = PREFIX \o <<"a", ":", "b", "=", ":", "a", ":", "!">>
  /\ Len(members) = 1
  /\ members[1].input = storedValueOfA
  /\ members[1].error = "FormatError"

(***************************************************************************)
(* Properties of two callers on one stage file                             *)
(***************************************************************************)
\* the keys caller r has encrypted
KeysEncryptedBy(r) ==
  { runs[r].variablesToEncrypt[i][1] : i \in 1..runs[r].encryptedCount }

\* some line of the file assigns key an envelope
HasEnvelopeLine(key) ==
  \E i \in 1..Len(linesOfFile) :
     /\ StartsWith(linesOfFile[i], key \o <<"=">>)
     /\ isEnvelope(SubSeq(linesOfFile[i], Len(key) + 2, Len(linesOfFile[i])))

\* every caller that has called did so while no other call was in progress
Serialized == \A r \in RunIds : runs[r].startedAlone

\* C13: a write is the lines its caller read, changed only on the lines of
\* the keys that caller encrypted, whatever another caller wrote in between;
\* and when the calls are serialized, every key either call encrypted is
\* assigned an envelope in the file once both have returned.
C13_NoLocking ==
  /\ \A r \in RunIds :
       /\ (runs[r].wroteAt > 0 /\ \A o \in RunIds : runs[o].wroteAt <= runs[r].wroteAt)
            => fileContent = Join(runs[r].updatedLines, <<LF>>)
       /\ \A i \in 1..Len(runs[r].envFileLines) :
            runs[r].updatedLines[i] # runs[r].envFileLines[i]
              => LET parsed == parseEnvironmentLine(runs[r].envFileLines[i])
                 IN parsed # NoVariable /\ parsed[1] \in KeysEncryptedBy(r)
  /\ (Serialized /\ \A r \in RunIds : runs[r].pc = "done")
       => \A r \in RunIds : \A key \in KeysEncryptedBy(r) : HasEnvelopeLine(key)

\* a lost update: both callers read before either wrote, both wrote, and a
\* key the first writer encrypted has its plaintext line in the file again
C13_Witness ==
  \E r \in RunIds : \E o \in RunIds \ {r} :
     /\ runs[r].pc = "done"
     /\ runs[o].pc = "done"
     /\ runs[r].wroteAt = 1
     /\ runs[o].wroteAt = 2
     /\ runs[o].envFileLines = readEnvironmentFileAsLines(fileAtStart)
     /\ \E key \in KeysEncryptedBy(r) :
          /\ ~HasEnvelopeLine(key)
          /\ \E i \in linesOfKey(linesOfFile, key) :
               linesOfFile[i] = readEnvironmentFileAsLines(fileAtStart)[i]

(***************************************************************************)
(* Properties of the master key storage                                    *)
(***************************************************************************)
\* the positions of the lines of content that assign SecretKeyVariable
SecretKeyLines(content) ==
  LET lines == SplitLines(content)
  IN { i \in 1..Len(lines) :
         StartsWith(lines[i], SecretKeyVariable \o <<"=">>) }

\* C12: once generateSecretKey has completed, the base environment file has
\* the line SECRET_KEY_<STAGE>=<new key>, what getSecretKeyValue finds for
\* the name is the new key, and when the content the call read already
\* assigned the name, the file has as many lines, and as many lines that
\* assign the name, as before.
C12_KeyStored ==
  generatedSecretKey # NoKey
    => /\ baseFileExists
       /\ \E i \in SecretKeyLines(baseFileContent) :
            SplitLines(baseFileContent)[i]
              = SecretKeyVariable \o <<"=">> \o generatedSecretKey
       /\ extractKeyValue(baseFileContent, SecretKeyVariable) = generatedSecretKey
       /\ secretKeyValue.called => secretKeyValue.value = generatedSecretKey
       /\ IF SecretKeyLines(baseContentBefore) # {}
          THEN /\ Cardinality(SecretKeyLines(baseFileContent))
                    = Cardinality(SecretKeyLines(baseContentBefore))
               /\ Len(SplitLines(baseFileContent))
                    = Len(SplitLines(baseContentBefore))
          ELSE Cardinality(SecretKeyLines(baseFileContent)) = 1

\* a key was generated over a key generated before, and then looked up
C12_Witness ==
  /\ generatedSecretKey # NoKey
  /\ \E other \in GeneratedKeys :
       /\ other # generatedSecretKey
       /\ extractKeyValue(baseContentBefore, SecretKeyVariable) = other
  /\ secretKeyValue.called
  /\ secretKeyValue.value = generatedSecretKey
  /\ Len(SplitLines(baseFileContent)) > 1

(***************************************************************************)
(* Properties of CryptoService calls                                       *)
(***************************************************************************)
\* member i of a decrypt batch was handed what encrypt call j returned, and
\* resolved the master key that call had resolved
DecryptsProduced(i, j) ==
  /\ batchOp = "decrypt"
  /\ members[i].input = produced[j].envelope
  /\ members[i].key = produced[j].key

\* C2: a decrypt call handed the envelope an encrypt call returned for v,
\* under the master key that call used, returns exactly v, whatever salt
\* and IV the encrypt call drew.
C2_RoundTrip ==
  \A i \in 1..Len(members) : \A j \in 1..Len(produced) :
    (DecryptsProduced(i, j) /\ Finished(members[i]))
      => (members[i].pc = "done" /\ members[i].out = produced[j].value)

\* member i of a decrypt batch was handed envelope j with its cipherText
\* segment (n = 3) or its hmacTag segment (n = 4) changed to another
\* well-formed segment, and resolved the master key of the encrypt call
TamperedAt(i, j, n) ==
  /\ batchOp = "decrypt"
  /\ members[i].key = produced[j].key
  /\ isEnvelope(members[i].input)
  /\ segmentOf(members[i].input, n) # segmentOf(produced[j].envelope, n)
  /\ members[i].input =
       withSegment(produced[j].envelope, n, segmentOf(members[i].input, n))

\* C3: a decrypt call handed an envelope of encrypt whose cipherText or
\* hmacTag segment was changed to a different well-formed value, under the
\* same master key, never reaches the decryption step and never returns a
\* plaintext; when it ends, it has failed with IntegrityError.
C3_TamperDetected ==
  \A i \in 1..Len(members) : \A j \in 1..Len(produced) : \A n \in {3, 4} :
    TamperedAt(i, j, n)
      => /\ members[i].pc \notin {"performDecryption", "done"}
         /\ members[i].error \in {"none", "IntegrityError"}
         /\ Finished(members[i]) => members[i].error = "IntegrityError"

\* both decrypt calls of a batch have ended: one was handed a changed
\* cipherText segment, the other a changed hmacTag segment or another input
C3_Witness ==
  /\ AllFinished
  /\ \E i \in 1..Len(members) : \E j \in 1..Len(produced) :
       /\ TamperedAt(i, j, 3)
       /\ members[i].error = "IntegrityError"
  /\ \E i \in 1..Len(members) : \E j \in 1..Len(produced) :
       /\ TamperedAt(i, j, 4)
       /\ members[i].error = "IntegrityError"

\* what member i returns is what the single-value operation returns for
\* input i
IsOutputOf(value, member) ==
  IF batchOp = "encrypt"
  THEN encrypt(member.input, member.key, member.salt, member.iv) = Ok(value)
  ELSE decrypt(member.input, member.key) = Ok(value)

\* C7: the promise of encryptMultiple / decryptMultiple is either fulfilled
\* with one output per input, in input order, or rejected with the error of
\* a failed member and no list; once a member has failed the promise is
\* rejected, and it is settled when every member has ended.
C7_BatchAbort ==
  /\ batchResult.state = "fulfilled"
       => /\ Len(batchResult.values) = Len(members)
          /\ \A i \in 1..Len(members) :
               /\ members[i].pc = "done"
               /\ IsOutputOf(batchResult.values[i], members[i])
  /\ batchResult.state = "rejected"
       => /\ batchResult.values = <<>>
          /\ \E i \in 1..Len(members) :
               /\ members[i].pc = "failed"
               /\ members[i].error = batchResult.error
  /\ (\E i \in 1..Len(members) : members[i].pc = "failed")
       => batchResult.state = "rejected"
  /\ (batchOp # "none" /\ AllFinished) => batchResult.state # "pending"

\* a batch of two in which one member returned a value and the other failed
C7_Witness ==
  /\ Len(members) = 2
  /\ AllFinished
  /\ \E i \in 1..2 : members[i].pc = "done" /\ members[i].out # <<>>
  /\ \E i \in 1..2 : members[i].pc = "failed"
  /\ batchResult.state = "rejected"

\* the members whose single-value operation has started and not ended
InProgress == { i \in 1..Len(members) : ~Finished(members[i]) }

\* C14: during encryptMultiple and decryptMultiple at most one member's
\* single-value operation is in progress, and with it at most one key
\* derivation; member i + 1 is not started before member i has ended.
C14_Sequential ==
  /\ Cardinality(InProgress) <= 1
  /\ Cardinality({ i \in InProgress :
                     members[i].pc \in {"components", "deriveKeys"} }) <= 1

\* C15: when the promise of a batch is rejected and several members have
\* failed, the error of the promise is the error of the failed member with
\* the lowest index.
C15_LowestIndexError ==
  (batchResult.state = "rejected" /\ AllFinished)
    => LET failed == { i \in 1..Len(members) : members[i].pc = "failed" }
           lowest == CHOOSE i \in failed : \A j \in failed : i <= j
       IN batchResult.error = members[lowest].error

\* the order of the awaits of a decrypt call
DecryptOrder ==
  { <<"getSecretKey", "deriveKeys">>, <<"deriveKeys", "verifyHMAC">>,
    <<"verifyHMAC", "performDecryption">>, <<"performDecryption", "done">>,
    <<"getSecretKey", "failed">>, <<"verifyHMAC", "failed">>,
    <<"performDecryption", "failed">> }

\* member was decoded, and the tag it carries is the tag of its segments
\* under the key derived from its salt
TagVerified(member) ==
  /\ EnvelopeRule(member.input)
  /\ member.parts = Split(SubSeq(member.input, Len(PREFIX) + 1,
                                 Len(member.input)), SEPARATOR)
  /\ member.parts[4] =
       computeHMAC(member.parts[1], member.parts[2], member.parts[3],
                   deriveKeysWithArgon2(member.key, member.parts[1]).hmacKey)

\* C16: a decrypt call moves from decode to key derivation to HMAC
\* verification to decryption to the decoded text, skipping none; it is at
\* the decryption or beyond only with a verified tag, and at the key
\* derivation or beyond only for an input that was decoded.
C16_DecryptOrder ==
  /\ [](batchOp = "decrypt"
          => \A i \in 1..Len(members) :
               /\ members[i].pc \in {"performDecryption", "done"}
                    => TagVerified(members[i])
               /\ members[i].pc \in {"deriveKeys", "verifyHMAC",
                                     "performDecryption", "done"}
                    => EnvelopeRule(members[i].input)
               /\ members[i].pc = "done"
                    => members[i].out =
                         TextDecoderDecode(
                           performDecryption(
                             members[i].parts[2],
                             deriveKeysWithArgon2(members[i].key,
                                                  members[i].parts[1]).encryptionKey,
                             members[i].parts[3]).value))
  /\ [][(batchOp = "decrypt" /\ batchOp' = "decrypt" /\ ~AllFinished)
          => \A i \in 1..Len(members) :
               \/ members'[i].pc = members[i].pc
               \/ <<members[i].pc, members'[i].pc>> \in DecryptOrder]_vars

\* a batch in which one call returned a plaintext and another was stopped
\* at the HMAC verification
C16_Witness ==
  /\ batchOp = "decrypt"
  /\ AllFinished
  /\ \E i \in 1..Len(members) : members[i].pc = "done" /\ members[i].out # <<>>
  /\ \E i \in 1..Len(members) : members[i].error = "IntegrityError"

(***************************************************************************)
(* Properties of the targets of a run and of its write                     *)
(***************************************************************************)
\* C17: a run calls writeEnvironmentFileLines at most once, and only after
\* the loop has encrypted every variable it selected; the content written
\* is the lines joined by line feeds; a run that encrypted nothing writes
\* nothing.
C17_SingleWrite ==
  /\ writeCount <= 1
  /\ pc \in {"encrypting", "write"} => (writeCount = 0 /\ fileContent = fileAtStart)
  /\ writeCount = 1
       => /\ encryptedCount >= 1
          /\ encryptedCount = Len(variablesToEncrypt)
          /\ cursor > Len(variablesToEncrypt)
          /\ failure = "none"
          /\ fileContent = Join(updatedLines, <<LF>>)
  /\ (Resting /\ encryptedCount = 0)
       => (writeCount = 0 /\ fileContent = fileAtStart)

\* the run encrypted two variables and wrote the file
C17_Witness ==
  /\ pc = "done"
  /\ encryptedCount = 2
  /\ writeCount = 1
  /\ fileContent # fileAtStart

\* the positions in lines whose trimmed content starts with key=
linesStartingWith(lines, key) ==
  { i \in 1..Len(lines) : StartsWith(Trim(lines[i]), key \o <<"=">>) }

\* C18: for every key the run encrypted, the first line of the file read
\* whose trimmed content starts with KEY= is KEY=<envelope> in the lines of
\* the run, every later such line is as it was read, and when no line
\* starts with KEY= a line KEY=<envelope> is added after the lines read.
C18_FirstLineReplaced ==
  \A key \in EncryptedKeys :
    LET matching == linesStartingWith(envFileLines, key)
        isResult(line) ==
          /\ StartsWith(line, key \o <<"=">>)
          /\ EnvelopeRule(SubSeq(line, Len(key) + 2, Len(line)))
    IN IF matching = {}
       THEN \E i \in (Len(envFileLines) + 1)..Len(updatedLines) :
              isResult(updatedLines[i])
       ELSE \A i \in matching :
              IF \A j \in matching : i <= j
              THEN isResult(updatedLines[i])
              ELSE updatedLines[i] = envFileLines[i]

\* name is the key or the value of a variable of all
Resolvable(all, name) ==
  \E i \in 1..Len(all) : all[i][1] = name \/ all[i][2] = name

\* the key name stands for: itself when it is a key, else the key of the
\* first variable, in file order, whose value it is
TargetKey(all, name) ==
  IF \E i \in 1..Len(all) : all[i][1] = name THEN name
  ELSE LET first == CHOOSE i \in 1..Len(all) :
                      /\ all[i][2] = name
                      /\ \A j \in 1..(i - 1) : all[j][2] # name
       IN all[first][1]

\* the keys of the variables the run selected
SelectedKeys == { variablesToEncrypt[i][1] : i \in 1..Len(variablesToEncrypt) }

\* C19: without names the candidates of a run are all the variables of the
\* file; with names, each name stands for the variable with that key, or
\* failing that for the first variable in file order with that value, and
\* a name that is neither is logged as not found and adds no candidate.
C19_TargetResolution ==
  (pc # "idle" /\ allEnvVariablesOfRun # <<>>)
    => LET all == allEnvVariablesOfRun
           names == { envVariables[i] : i \in 1..Len(envVariables) }
           targets == IF envVariables = <<>>
                      THEN { all[i][1] : i \in 1..Len(all) }
                      ELSE { TargetKey(all, name) :
                               name \in { n \in names : Resolvable(all, n) } }
           plain(key) == /\ Trim(Get(all, key)) # <<>>
                         /\ ~StartsWith(Trim(Get(all, key)), PREFIX)
       IN /\ SelectedKeys \subseteq targets
          /\ \A key \in targets : plain(key) => key \in SelectedKeys
          /\ notFoundLogged =
               SelectSeq(envVariables, LAMBDA name : ~Resolvable(all, name))

\* the one name of the run is a key and also the value of the variable
\* before it, and the run encrypted the variable with that key
C19_Witness ==
  /\ pc = "done"
  /\ Len(envVariables) = 1
  /\ Len(allEnvVariablesOfRun) = 2
  /\ allEnvVariablesOfRun[1][2] = envVariables[1]
  /\ allEnvVariablesOfRun[2][1] = envVariables[1]
  /\ EncryptedKeys = {envVariables[1]}
  /\ writeCount = 1

\* C20: a candidate with a non-empty trimmed value is left out of the
\* variables to encrypt exactly when that value is a valid envelope; a value
\* that only starts with the prefix is encrypted like any plaintext.
C20_EnvelopeSkipped ==
  (pc # "idle" /\ allEnvVariablesOfRun # <<>>)
    => \A i \in 1..Len(candidatesOfRun) :
         LET key == candidatesOfRun[i][1]
             trimmedValue == Trim(candidatesOfRun[i][2])
         IN trimmedValue # <<>>
              => (key \notin SelectedKeys <=> EnvelopeRule(trimmedValue))

\* the value the last line of lines that assigns key gives it
lastValueOf(lines, key) ==
  LET occurrences == linesOfKey(lines, key)
      last == CHOOSE i \in occurrences : \A j \in occurrences : j <= i
  IN parseEnvironmentLine(lines[last])[2]

\* C21: extractEnvironmentVariables yields one record for every key the
\* lines assign, with the value of the key's last line, and that value
\* decides whether the key is left out as empty or as already encrypted and
\* is the value handed to CryptoService.encrypt.
C21_LastOccurrenceWins ==
  pc # "idle"
    => LET all == allEnvVariablesOfRun
           candidateKeys ==
             { candidatesOfRun[i][1] : i \in 1..Len(candidatesOfRun) }
           eligible(key) ==
             /\ Trim(lastValueOf(envFileLines, key)) # <<>>
             /\ ~StartsWith(Trim(lastValueOf(envFileLines, key)), PREFIX)
       IN /\ \A i, j \in 1..Len(all) : all[i][1] = all[j][1] => i = j
          /\ { all[i][1] : i \in 1..Len(all) }
               = { parseEnvironmentLine(envFileLines[i])[1] :
                     i \in { n \in 1..Len(envFileLines) :
                               parseEnvironmentLine(envFileLines[n]) # NoVariable } }
          /\ \A i \in 1..Len(all) :
               all[i][2] = lastValueOf(envFileLines, all[i][1])
          /\ SelectedKeys = { key \in candidateKeys : eligible(key) }
          /\ \A i \in 1..Len(variablesToEncrypt) :
               variablesToEncrypt[i][2]
                 = lastValueOf(envFileLines, variablesToEncrypt[i][1])
          /\ \A i \in 1..Len(encryptCalls) :
               encryptCalls[i][2]
                 = Trim(lastValueOf(envFileLines, encryptCalls[i][1]))

\* a key whose first line gives it an empty value and whose second line
\* gives it a plaintext was encrypted
C21_Witness ==
  /\ pc = "done"
  /\ \E key \in { <<"A">>, <<"B">> } :
       LET occurrences == linesOfKey(envFileLines, key)
       IN /\ Cardinality(occurrences) = 2
          /\ \E i, j \in occurrences :
               /\ i < j
               /\ parseEnvironmentLine(envFileLines[i])[2]
                    # parseEnvironmentLine(envFileLines[j])[2]
               /\ Trim(parseEnvironmentLine(envFileLines[i])[2]) = <<>>
          /\ key \in EncryptedKeys

RewrittenKeys ==
  { key \in EncryptedKeys :
      \E i \in 1..Len(linesOfFile) :
        /\ StartsWith(linesOfFile[i], key \o <<"=">>)
        /\ EnvelopeRule(SubSeq(linesOfFile[i], Len(key) + 2, Len(linesOfFile[i]))) }

\* C23: every run that returned without error has logged exactly one
\* summary, also when the file had no variable, no name was resolved or
\* every target was skipped, and the encrypted count of the summary is the
\* number of keys rewritten in the file.
C23_SummaryOnce ==
  /\ summaryCount <= 1
  /\ RunSucceeded
       => /\ summaryCount = 1
          /\ encryptedCount = Cardinality(RewrittenKeys)
          /\ (encryptedCount > 0 => fileContent = Join(updatedLines, <<LF>>))

(***************************************************************************)
(* Properties of the status views                                          *)
(***************************************************************************)
\* the names validateEncryption(names) maps to false on the file as it is
NamesMappedToFalse(names) ==
  LET mapping == validateEncryption(fileContent, names)
  IN { name \in { names[i] : i \in 1..Len(names) } : ~Get(mapping, name) }

\* C24: on an unchanged file, getUnencryptedVariables(names) returns the
\* names validateEncryption(names) maps to false, each once, and
\* areAllEncrypted(names) is true exactly when there is no such name, so it
\* is true for an empty list of names.
C24_ViewsAgree ==
  (validation.called /\ validation.ok)
    => /\ validation.op = "getUnencryptedVariables"
            => /\ { validation.result[i] : i \in 1..Len(validation.result) }
                    = NamesMappedToFalse(validation.names)
               /\ \A i, j \in 1..Len(validation.result) :
                    validation.result[i] = validation.result[j] => i = j
       /\ validation.op = "areAllEncrypted"
            => /\ validation.result
                    <=> (NamesMappedToFalse(validation.names) = {})
               /\ validation.result
                    <=> (getUnencryptedVariables(fileContent, validation.names) = <<>>)
               /\ validation.names = <<>> => validation.result

\* areAllEncrypted returned false for names of which one is encrypted and
\* another is not
C24_Witness ==
  /\ validation.called
  /\ validation.ok
  /\ validation.op = "areAllEncrypted"
  /\ ~validation.result
  /\ Len(validation.names) = 3
  /\ \E i \in 1..Len(validation.names) :
       validation.names[i] \notin NamesMappedToFalse(validation.names)

(***************************************************************************)
(* Properties of a caller that awaits every call                           *)
(***************************************************************************)
\* C25: once the awaits of the calls in progress settle, every run and
\* status check ends (returned or thrown) and every member of an encrypt or
\* decrypt batch ends; each pass of the run's loop takes the next variable
\* or ends the run, and a member that has ended is not started again.
C25_Termination ==
  /\ (~Resting) ~> Resting
  /\ (~AllFinished) ~> AllFinished
  /\ [][(pc = "encrypting" /\ encryptCalls' # encryptCalls)
          => \/ pc' = "failed"
             \/ /\ cursor' = cursor + 1
                /\ cursor <= Len(variablesToEncrypt)
                /\ variablesToEncrypt' = variablesToEncrypt]_vars
  /\ [][~AllFinished
          => \A i \in 1..Len(members) :
               Finished(members[i]) => members'[i] = members[i]]_vars

\* the caller has ended a run that encrypted two variables and then a
\* decrypt batch in which one member returned and the other threw
C25_Witness ==
  /\ pc = "done"
  /\ encryptedCount = 2
  /\ summaryCount = 1
  /\ batchOp = "decrypt"
  /\ Len(members) = 2
  /\ AllFinished
  /\ \E i \in 1..2 : members[i].pc = "done"
  /\ \E i \in 1..2 : members[i].pc = "failed"

(***************************************************************************)
(* Properties of the file a run leaves                                     *)
(***************************************************************************)
\* C26: after a run that returned without error, no line of the file
\* assigns a key the run encrypted the plaintext that was encrypted for it,
\* however the line is written.
C26_NoPlaintextLeft ==
  RunSucceeded
    => \A n \in 1..encryptedCount :
         \A i \in linesOfKey(linesOfFile, encryptCalls[n][1]) :
           Trim(parseEnvironmentLine(linesOfFile[i])[2]) # encryptCalls[n][2]

(***************************************************************************)
(* Properties of key regeneration                                          *)
(***************************************************************************)
\* C27: a decrypt of an envelope made under an earlier key, called after
\* generateSecretKey replaced the key and the new key was loaded, is never
\* at the AES-GCM decryption, returns no plaintext, and ends with
\* IntegrityError.
C27_RotationInvalidates ==
  batchOp = "decrypt"
    => \A i \in 1..Len(members) : \A j \in 1..Len(produced) :
         (/\ members[i].input = produced[j].envelope
          /\ members[i].key # <<>>
          /\ members[i].key # produced[j].key)
           => /\ members[i].pc \notin {"performDecryption", "done"}
              /\ members[i].out = <<>>
              /\ Finished(members[i]) => members[i].error = "IntegrityError"

\* the envelope was made under a generated key, the key was generated
\* again and loaded, and the decrypt of the envelope ended at the HMAC check
C27_Witness ==
  /\ batchOp = "decrypt"
  /\ Len(members) = 1
  /\ Len(produced) = 1
  /\ members[1].input = produced[1].envelope
  /\ members[1].error = "IntegrityError"
  /\ produced[1].key \in GeneratedKeys
  /\ masterKey = generatedSecretKey
  /\ members[1].key = masterKey
  /\ masterKey # produced[1].key
  /\ extractKeyValue(baseFileContent, SecretKeyVariable) = masterKey

\* values made of whitespace only
WhitespaceValues == { <<>>, <<SP>>, <<"\t", SP>>, <<BOM>>, <<SP, CR>> }

\* C28: the value handed to CryptoService.encrypt for a key is the trimmed
\* value of the key, every line KEY=<envelope> of the run decrypts to that
\* trimmed value, and a value of whitespace only is never selected.
C28_TrimmedStored ==
  /\ \A n \in 1..encryptedCount :
       LET key == encryptCalls[n][1]
           original == lastValueOf(envFileLines, key)
           written == linesStartingWith(updatedLines, key)
       IN /\ encryptCalls[n][2] = Trim(original)
          /\ written # {}
          /\ \A i \in written :
               LET decrypted ==
                     decrypt(SubSeq(updatedLines[i], Len(key) + 2,
                                    Len(updatedLines[i])), masterKey)
               IN decrypted.ok /\ decrypted.value = Trim(original)
  /\ \A value \in WhitespaceValues :
       filterEncryptableVariables(<< <<<<"A">>, value>> >>) = <<>>
  /\ \A i \in 1..Len(variablesToEncrypt) : Trim(variablesToEncrypt[i][2]) # <<>>

\* the run encrypted a value that was parsed with whitespace around it and
\* wrote the file
C28_Witness ==
  /\ pc = "done"
  /\ writeCount = 1
  /\ encryptedCount = 1
  /\ lastValueOf(envFileLines, encryptCalls[1][1]) # encryptCalls[1][2]
  /\ Includes(encryptCalls[1][2], SP)

(***************************************************************************)
(* Properties of the loop of a run                                         *)
(***************************************************************************)
\* C29: the calls of CryptoService.encrypt in a run are made for the
\* variables to encrypt in their order, one more call only after every call
\* before it returned an envelope, and none after a call that failed.
C29_OneAtATime ==
  /\ [](/\ Len(encryptCalls) <= Len(variablesToEncrypt)
        /\ \A n \in 1..Len(encryptCalls) :
             encryptCalls[n] = <<variablesToEncrypt[n][1],
                                 Trim(variablesToEncrypt[n][2])>>
        /\ encryptedCount <= Len(encryptCalls)
        /\ Len(encryptCalls) <= encryptedCount + 1
        /\ Len(encryptCalls) = encryptedCount + 1 <=> EncryptFailed
        /\ pc = "encrypting" => cursor = Len(encryptCalls) + 1)
  /\ [][encryptCalls' # encryptCalls
          => \/ encryptCalls' = <<>>
             \/ /\ ~EncryptFailed
                /\ Len(encryptCalls') = Len(encryptCalls) + 1
                /\ SubSeq(encryptCalls', 1, Len(encryptCalls)) = encryptCalls]_vars

\* the call for the second of two variables failed after the call for the
\* first returned
C29_Witness ==
  /\ EncryptFailed
  /\ Len(variablesToEncrypt) = 2
  /\ Len(encryptCalls) = 2
  /\ encryptedCount = 1
  /\ encryptCalls[1][1] # encryptCalls[2][1]

(***************************************************************************)
(* Properties of the dedup caches                                          *)
(***************************************************************************)
\* a step from the cache before to the cache after added one key the cache
\* did not hold, after the oldest count keys were removed when the cache
\* was at its limit
AddedWithin(before, after, limit, count) ==
  LET kept == IF Len(before) = limit
              THEN SubSeq(before, count + 1, Len(before))
              ELSE before
  IN /\ Len(before) <= limit
     /\ Len(after) = Len(kept) + 1
     /\ SubSeq(after, 1, Len(kept)) = kept
     /\ SelectSeq(before, LAMBDA held : held = after[Len(after)]) = <<>>

\* C30: whatever calls of captureError, createErrorDetails and the resets
\* are made, LOGGED_ERRORS_CACHE never holds more than 1000 keys and
\* MATCH_RESULT_CACHE never more than 5000; a step that changes a cache
\* empties it or adds one new key, and when the cache was at its limit the
\* oldest 30% (logged errors) or 20% (match results) of the limit were
\* removed before the key was added.
C30_BoundedCaches ==
  /\ [](/\ Len(LOGGED_ERRORS_CACHE) <= MAX_LOGGED_ERRORS_CACHE_SIZE
        /\ Len(MATCH_RESULT_CACHE) <= MAX_MATCH_CACHE_SIZE)
  /\ [][/\ LOGGED_ERRORS_CACHE' # LOGGED_ERRORS_CACHE
             => \/ LOGGED_ERRORS_CACHE' = <<>>
                \/ AddedWithin(LOGGED_ERRORS_CACHE, LOGGED_ERRORS_CACHE',
                               MAX_LOGGED_ERRORS_CACHE_SIZE,
                               (30 * MAX_LOGGED_ERRORS_CACHE_SIZE) \div 100)
        /\ MATCH_RESULT_CACHE' # MATCH_RESULT_CACHE
             => \/ MATCH_RESULT_CACHE' = <<>>
                \/ AddedWithin(MATCH_RESULT_CACHE, MATCH_RESULT_CACHE',
                               MAX_MATCH_CACHE_SIZE,
                               (20 * MAX_MATCH_CACHE_SIZE) \div 100)]_vars

\* a captureError call found both caches at their limits and left each with
\* its newest 70% resp. 80% and the key of the call
C30_Witness ==
  /\ lastCall.op = "captureError"
  /\ lastCall.loggedBefore = MAX_LOGGED_ERRORS_CACHE_SIZE
  /\ lastCall.matchBefore = MAX_MATCH_CACHE_SIZE
  /\ Len(LOGGED_ERRORS_CACHE) = 701
  /\ Len(MATCH_RESULT_CACHE) = 4001
  /\ LOGGED_ERRORS_CACHE[1] = 301
  /\ MATCH_RESULT_CACHE[1] = 1001
  /\ LOGGED_ERRORS_CACHE[701] > MAX_LOGGED_ERRORS_CACHE_SIZE
  /\ MATCH_RESULT_CACHE[4001] > MAX_MATCH_CACHE_SIZE

====
